---- MODULE Spec2Model ----
(***************************************************************************)
(* A model of ztui, the ZeroTier terminal UI: the bookmarked-network store *)
(* of config.rs (Settings), the key handlers of app.rs (App), the command  *)
(* templates of config.rs, the settings file round trip, and run_command   *)
(* with the temp_mute_terminal! macro of terminal.rs.                      *)
(*                                                                         *)
(* Rust values are modelled as follows.  Option<T> is a sequence of length *)
(* at most one (<<>> is None, <<x>> is Some(x)).  A Vec is a sequence,     *)
(* indexed from 1 where Rust indexes from 0.  A HashMap is a function on   *)
(* the set of its keys.  A String is a sequence of one-character strings   *)
(* where its content is inspected (templates), a short string otherwise.   *)
(* A Rust panic on the interactive thread ends the process: exit becomes   *)
(* "panic" and no action is enabled any more.                              *)
(***************************************************************************)
EXTENDS Integers, Sequences, FiniteSets, TLC

VARIABLES
    savednetworks,      \* Settings.savednetworks: HashMap<String, Network>
    savednetworksidx,   \* Settings.savednetworksidx: Vec<String>
    filter,             \* Settings.filter: ListFilter
    page,               \* Settings.page: Page
    network_state,      \* Settings.network_state.selected(): Option<usize>
    last_error,         \* Settings.last_error: Option<String>
    members,            \* Settings.members: HashMap<String, Vec<Member>>
    api_keys,           \* Settings.api_keys: HashMap<String, String>
    editing_mode,       \* App.editing_mode: EditingMode
    dialog,             \* App.dialog: Dialog
    inputbuffer,        \* App.inputbuffer: String
    member_count,       \* App.member_count: usize
    member_state,       \* App.member_state.selected(): Option<usize>
    pc,                 \* where App::run stands in its loop
    exit,               \* "none" while the session runs; "quit", "error", "panic"
    last,               \* the last operation and its inputs (history only)
    liststate,          \* main.rs App.liststate.selected(): Option<usize>
    listitems,          \* main.rs App.listitems.len()
    tpl_s,              \* the template a command_for_* call looked up: Option<String>
    tpl_rec,            \* the Network or Member the call was given
    tpl_out,            \* what the call returned, or that it panicked
    file,               \* settings.json: Option<the JSON document>
    cmd_pc,             \* run_command: the statement the caller is at
    cmd_trap,           \* run_command: its trap argument
    raw_mode,           \* the terminal: raw mode is on
    alt_screen,         \* the terminal: the alternate screen is active
    left,               \* run_command: calls that left raw mode or the alternate screen
    entered,            \* run_command: calls that re-entered one of them
    child,              \* run_command: the /bin/sh child
    reported,           \* run_command: child.wait() has been sent on the channel
    sigint,             \* an interrupt has been sent to the process
    main_pc,            \* main.rs main: the statement it is at
    main_end,           \* the process: "running", or how main ended
    secret_ok,          \* authtoken.secret exists and can be read
    printed,            \* main has printed the error of the session
    lock,               \* the Mutex of Settings: "free", or the thread that holds it
    call,               \* the blocking call the interactive thread is in, or "none"
    gw_fn,              \* client.rs: the sync_* function that is running, or "none"
    gw_cause,           \* what the request of the spawned task meets
    gw_chan,            \* the mpsc channel between the task and its caller
    gw_elapsed,         \* timeout.elapsed(), in seconds
    gw_out              \* what the sync_* function returns

storeVars == <<savednetworks, savednetworksidx>>
settingsVars == <<filter, page, network_state, last_error, members, api_keys>>
appVars == <<editing_mode, dialog, inputbuffer, member_count, member_state>>
procVars == <<pc, exit, last>>
legacyVars == <<liststate, listitems>>
tplVars == <<tpl_s, tpl_rec, tpl_out>>
fileVars == <<file>>
cmdVars == <<cmd_pc, cmd_trap, raw_mode, alt_screen, left, entered, child, reported, sigint>>
mainVars == <<main_pc, main_end, secret_ok, printed>>
lockVars == <<lock, call>>
gwVars == <<gw_fn, gw_cause, gw_chan, gw_elapsed, gw_out>>
extVars == <<lockVars, gwVars>>
auxVars == <<legacyVars, tplVars, fileVars, cmdVars, mainVars, extVars>>
vars == <<storeVars, settingsVars, appVars, procVars, auxVars>>

----------------------------------------------------------------------------
(* Option<T> *)

None == <<>>

Some(x) == <<x>>

unwrap_or_default(o) == IF o = <<>> THEN 0 ELSE o[1]

Range(s) == {s[i] : i \in 1..Len(s)}

(* All orderings of a finite set, as sequences without repetition. *)
Orderings(S) ==
    {s \in [1..Cardinality(S) -> S] : \A i, j \in 1..Cardinality(S) : s[i] = s[j] => i = j}

(* A history record: the operation that ran last, the position or the
   identifiers it was given, and the remote request it issued (<<>>: none). *)
Op(name, pos, ids, req) == [op |-> name, pos |-> pos, ids |-> ids, req |-> req]

----------------------------------------------------------------------------
(* The network store: Settings in config.rs *)

STATUS_DISCONNECTED == "DISCONNECTED"

(* The statuses a poll of the local daemon reports. *)
PollStatuses == {"OK", "REQUESTING_CONFIGURATION"}

(* The identifiers a poll may report in the store specification. *)
StoreIds == {"n1", "n2", "n3"}

(* The longest list of networks one poll delivers. *)
MaxPoll == 2

(* A Network, reduced to the fields the store reads and writes. *)
Network(id, status) == [id |-> id, status |-> status]

(* The lists of networks a poll can deliver, over the identifiers U and
   the statuses S. *)
PollLists(U, S) ==
    UNION {[1..n -> {Network(id, st) : id \in U, st \in S}] : n \in 0..MaxPoll}

(* update_networks, first loop: insert every polled network, later entries
   of the list overwriting earlier ones with the same identifier. *)
RECURSIVE InsertAll(_, _)
InsertAll(map, networks) ==
    IF networks = <<>> THEN map
    ELSE LET n == Head(networks)
             m == [id \in DOMAIN map \cup {n.id} |-> IF id = n.id THEN n ELSE map[id]]
         IN InsertAll(m, Tail(networks))

PolledIds(networks) == {networks[i].id : i \in 1..Len(networks)}

(* A merge that forgets the networks the poll left out (a hard delete). *)
MarkDisconnected_Forget(map, ids) == [id \in DOMAIN map \cap ids |-> map[id]]

(* update_networks, second loop, the map: every stored network whose
   identifier was not polled gets the status DISCONNECTED. *)
MarkDisconnected(map, ids) ==
    [id \in DOMAIN map |->
        IF id \notin ids THEN [map[id] EXCEPT !.status = STATUS_DISCONNECTED] ELSE map[id]]

UpdatedMap(map, networks) == MarkDisconnected(InsertAll(map, networks), PolledIds(networks))

(* An order list that puts the keys it lacked in front. *)
UpdatedIdx_Prepend(map, idx) ==
    {o \o idx : o \in Orderings({id \in DOMAIN map : id \notin Range(idx)})}

(* update_networks, second loop, the order list: every key of the map that
   the list lacks is pushed, in the HashMap's iteration order (any order). *)
UpdatedIdx(map, idx) ==
    {idx \o o : o \in Orderings({id \in DOMAIN map : id \notin Range(idx)})}

(* The result of update_networks: whether a polled identifier was new. *)
UpdateNew(map, networks) == \E id \in PolledIds(networks) : id \notin DOMAIN map

(* Settings::update_networks(networks). *)
update_networks(networks) ==
    /\ savednetworks' = UpdatedMap(savednetworks, networks)
    /\ savednetworksidx' \in UpdatedIdx(UpdatedMap(savednetworks, networks), savednetworksidx)

(* Vec::splice(start..end, []) yields the removed items, which is what
   collect() gathers; the vector itself keeps the rest. *)
SpliceYield(v, start, end) == SubSeq(v, start + 1, end)

(* Whether remove_network(pos) panics: the index at line 203 is out of
   range, or pos - 1 underflows at line 204 (debug build: overflow check;
   release build: the range usize::MAX..0 is rejected by splice). *)
RemovePanics(idx, pos) == pos >= Len(idx) \/ pos = 0

(* Settings::remove_network(pos), when it does not panic. *)
remove_network(pos) ==
    LET id == savednetworksidx[pos + 1]
    IN /\ savednetworksidx' = SpliceYield(savednetworksidx, pos - 1, pos)
       /\ savednetworks' = [k \in DOMAIN savednetworks \ {id} |-> savednetworks[k]]

(* Settings::get_network_id_by_pos(pos) panics on an index out of range. *)
GetIdPanics(idx, pos) == pos >= Len(idx)

get_network_id_by_pos(idx, pos) == idx[pos + 1]

----------------------------------------------------------------------------
(* The session state after construction: Settings::default, App::default *)

PageNetworks == [tag |-> "Networks", id |-> ""]

PageNetwork(id) == [tag |-> "Network", id |-> id]

Dialog(tag, id, member) == [tag |-> tag, id |-> id, member |-> member]

DialogNone == Dialog("None", "", "")

InitSession ==
    /\ savednetworks = <<>>
    /\ savednetworksidx = <<>>
    /\ filter = "None"
    /\ page = PageNetworks
    /\ network_state = None
    /\ last_error = None
    /\ members = <<>>
    /\ api_keys = <<>>
    /\ editing_mode = "Command"
    /\ dialog = DialogNone
    /\ inputbuffer = <<>>
    /\ member_count = 0
    /\ member_state = None
    /\ pc = "draw"
    /\ exit = "none"
    /\ last = Op("init", 0, {}, <<>>)

(* main.rs: the App literal of main. *)
InitLegacy ==
    /\ liststate = None
    /\ listitems = 0

(* No command_for_* call has been made. *)
InitTpl ==
    /\ tpl_s = None
    /\ tpl_rec = <<>>
    /\ tpl_out = [tag |-> "pending", val |-> None]

(* No settings.json has been written. *)
InitFile == file = None

(* terminal.rs init_terminal (9-16) has run; no command is delegated. *)
InitCmd ==
    /\ cmd_pc = "idle"
    /\ cmd_trap = FALSE
    /\ raw_mode = TRUE
    /\ alt_screen = TRUE
    /\ left = 0
    /\ entered = 0
    /\ child = "none"
    /\ reported = FALSE
    /\ sigint = FALSE

(* main has started the session and is inside it. *)
InitMainRunning ==
    /\ main_pc = "run"
    /\ main_end = "running"
    /\ secret_ok = TRUE
    /\ printed = FALSE

(* Nobody holds the lock and the interactive thread is in no call. *)
InitLock ==
    /\ lock = "free"
    /\ call = "none"

(* No sync_* function is running. *)
InitGw ==
    /\ gw_fn = "none"
    /\ gw_cause = [kind |-> "none", val |-> <<>>]
    /\ gw_chan = [msg |-> None, closed |-> FALSE]
    /\ gw_elapsed = 0
    /\ gw_out = None

InitExt == InitLock /\ InitGw

InitAux == InitLegacy /\ InitTpl /\ InitFile /\ InitCmd /\ InitMainRunning /\ InitExt

Init == InitSession /\ InitAux

----------------------------------------------------------------------------
(* The store specification: polls and deletes at any position *)

(* The positions a delete is tried at. *)
MaxPos == 3

StorePoll ==
    /\ exit = "none"
    /\ \E networks \in PollLists(StoreIds, PollStatuses) :
        /\ update_networks(networks)
        /\ last' = Op("poll", 0, PolledIds(networks), networks)
    /\ UNCHANGED <<settingsVars, appVars, pc, exit, auxVars>>

StoreRemove ==
    /\ exit = "none"
    /\ \E pos \in 0..MaxPos :
        /\ last' = Op("remove", pos, {}, <<>>)
        /\ IF RemovePanics(savednetworksidx, pos)
           THEN exit' = "panic" /\ UNCHANGED storeVars
           ELSE remove_network(pos) /\ UNCHANGED exit
    /\ UNCHANGED <<settingsVars, appVars, pc, auxVars>>

NextStore == StorePoll \/ StoreRemove

SpecStore == Init /\ [][NextStore]_vars

----------------------------------------------------------------------------
(* Settings: the filter, the filtered count, the API keys *)

(* The arm of 't' that computes the new filter. *)
ToggleFilter(f) == IF f = "None" THEN "Connected" ELSE "None"

(* Settings::count() panics when the filter is Connected and an entry of
   the order list has no record in the map (get(&x).unwrap()). *)
CountPanics(map, idx, f) == f = "Connected" /\ \E i \in 1..Len(idx) : idx[i] \notin DOMAIN map

(* Settings::count(): the entries of the order list that pass the filter. *)
count(map, idx, f) ==
    Cardinality({i \in 1..Len(idx) : f = "Connected" => map[idx[i]].status # STATUS_DISCONNECTED})

(* Settings::set_api_key_for_id(id, api_key). *)
set_api_key_for_id(keys, id, api_key) ==
    [k \in DOMAIN keys \cup {id} |-> IF k = id THEN api_key ELSE keys[k]]

(* serde_json::to_string_pretty(&get_network_by_pos(pos)): the JSON text of
   the selected record, or null when the map has no record for the entry. *)
ConfigJson(map, idx, pos) ==
    LET id == get_network_id_by_pos(idx, pos)
    IN IF id \in DOMAIN map THEN <<"{", id, "}">> ELSE <<"null">>

----------------------------------------------------------------------------
(* App::command_mode_key on Page::Networks (app.rs 338-483) *)

(* The network cursor as every handler reads it. *)
Cursor == unwrap_or_default(network_state)

(* A key has arrived and read_key dispatches it. *)
AtInput == exit = "none" /\ pc = "input"

(* The handler returned Ok(false): the loop goes on. *)
Done(name, pos, req) ==
    /\ pc' = "draw"
    /\ exit' = "none"
    /\ last' = Op(name, pos, {}, req)
    /\ UNCHANGED auxVars

(* The handler panicked: the process is gone, the state is as it was. *)
Panic(name, pos) ==
    /\ exit' = "panic"
    /\ pc' = pc
    /\ last' = Op(name, pos, {}, <<>>)
    /\ UNCHANGED <<storeVars, settingsVars, appVars, auxVars>>

(* The handler returned Err through a `?`: App::run returns the error. *)
Fail(name, pos, req) ==
    /\ exit' = "error"
    /\ pc' = pc
    /\ last' = Op(name, pos, {}, req)
    /\ UNCHANGED <<storeVars, settingsVars, appVars, auxVars>>

(* A blocking call of the Remote Gateway: it succeeds or returns an error,
   which the handler propagates with `?`; no state is written either way. *)
RemoteCall(name, pos, req) ==
    \E r \in {"ok", "err"} :
        IF r = "ok"
        THEN Done(name, pos, req) /\ UNCHANGED <<storeVars, settingsVars, appVars>>
        ELSE Fail(name, pos, req)

InNetworkList ==
    AtInput /\ editing_mode = "Command" /\ page.tag = "Networks" /\ dialog.tag = "None"

(* KeyCode::Up *)
NetUp ==
    /\ InNetworkList
    /\ network_state' = Some(IF Cursor > 0 THEN Cursor - 1 ELSE 0)
    /\ Done("Up", 0, <<>>)
    /\ UNCHANGED <<storeVars, filter, page, last_error, members, api_keys, appVars>>

(* A Down arm that moves without asking count(). *)
NetDown_NoGuard ==
    /\ InNetworkList
    /\ network_state' = Some(Cursor + 1)
    /\ Done("Down", 0, <<>>)
    /\ UNCHANGED <<storeVars, filter, page, last_error, members, api_keys, appVars>>

(* KeyCode::Down *)
NetDown ==
    /\ InNetworkList
    /\ IF CountPanics(savednetworks, savednetworksidx, filter)
       THEN Panic("Down", 0)
       ELSE /\ network_state' =
                 IF Cursor + 1 < count(savednetworks, savednetworksidx, filter)
                 THEN Some(Cursor + 1) ELSE network_state
            /\ Done("Down", 0, <<>>)
            /\ UNCHANGED <<storeVars, filter, page, last_error, members, api_keys, appVars>>

(* KeyCode::Esc *)
NetEsc ==
    /\ InNetworkList
    /\ dialog' = DialogNone
    /\ editing_mode' = "Command"
    /\ Done("Esc", 0, <<>>)
    /\ UNCHANGED <<storeVars, settingsVars, inputbuffer, member_count, member_state>>

(* 'q': Ok(true), and App::run returns Ok. *)
NetQuit ==
    /\ InNetworkList
    /\ exit' = "quit"
    /\ pc' = pc
    /\ last' = Op("q", 0, {}, <<>>)
    /\ UNCHANGED <<storeVars, settingsVars, appVars, auxVars>>

(* 'd' *)
NetDelete ==
    /\ InNetworkList
    /\ IF RemovePanics(savednetworksidx, Cursor)
       THEN Panic("d", 0)
       ELSE /\ remove_network(Cursor)
            /\ Done("d", 0, <<>>)
            /\ UNCHANGED <<settingsVars, appVars>>

(* 'l' *)
NetLeave ==
    /\ InNetworkList
    /\ IF GetIdPanics(savednetworksidx, Cursor)
       THEN Panic("l", 0)
       ELSE RemoteCall("l", 0, <<"leave_network", get_network_id_by_pos(savednetworksidx, Cursor)>>)

(* 'j' *)
NetJoin ==
    /\ InNetworkList
    /\ IF GetIdPanics(savednetworksidx, Cursor)
       THEN Panic("j", 0)
       ELSE RemoteCall("j", 0, <<"join_network", get_network_id_by_pos(savednetworksidx, Cursor)>>)

(* 'J' *)
NetJoinPrompt ==
    /\ InNetworkList
    /\ dialog' = Dialog("Join", "", "")
    /\ editing_mode' = "Editing"
    /\ inputbuffer' = <<>>
    /\ Done("J", 0, <<>>)
    /\ UNCHANGED <<storeVars, settingsVars, member_count, member_state>>

(* 'c' *)
NetConfig ==
    /\ InNetworkList
    /\ IF GetIdPanics(savednetworksidx, Cursor)
       THEN Panic("c", 0)
       ELSE /\ inputbuffer' = ConfigJson(savednetworks, savednetworksidx, Cursor)
            /\ dialog' = Dialog("Config", "", "")
            /\ Done("c", 0, <<>>)
            /\ UNCHANGED <<storeVars, settingsVars, editing_mode, member_count, member_state>>

(* A 't' arm that keeps the cursor. *)
NetToggleFilter_KeepCursor ==
    /\ InNetworkList
    /\ filter' = ToggleFilter(filter)
    /\ network_state' = network_state
    /\ Done("t", Cursor, <<>>)
    /\ UNCHANGED <<storeVars, page, last_error, members, api_keys, appVars>>

(* 't' *)
NetToggleFilter ==
    /\ InNetworkList
    /\ filter' = ToggleFilter(filter)
    /\ network_state' = Some(0)
    /\ Done("t", Cursor, <<>>)
    /\ UNCHANGED <<storeVars, page, last_error, members, api_keys, appVars>>

(* 'h' *)
NetHelp ==
    /\ InNetworkList
    /\ dialog' = IF dialog.tag = "Help" THEN DialogNone ELSE Dialog("Help", "", "")
    /\ Done("h", 0, <<>>)
    /\ UNCHANGED <<storeVars, settingsVars, editing_mode, inputbuffer, member_count, member_state>>

(* An 's' arm that shows the network without asking for its API key. *)
NetShow_NoGate ==
    /\ InNetworkList
    /\ IF GetIdPanics(savednetworksidx, Cursor)
       THEN Panic("s", 0)
       ELSE /\ Done("s", 0, <<>>)
            /\ member_state' = Some(0)
            /\ page' = PageNetwork(get_network_id_by_pos(savednetworksidx, Cursor))
            /\ UNCHANGED <<storeVars, filter, network_state, last_error, members,
                           api_keys, member_count, dialog, editing_mode, inputbuffer>>

(* 's' *)
NetShow ==
    /\ InNetworkList
    /\ IF GetIdPanics(savednetworksidx, Cursor)
       THEN Panic("s", 0)
       ELSE LET id == get_network_id_by_pos(savednetworksidx, Cursor)
            IN /\ Done("s", 0, <<>>)
               /\ IF id \in DOMAIN api_keys
                  THEN /\ member_state' = Some(0)
                       /\ page' = PageNetwork(id)
                       /\ UNCHANGED <<dialog, editing_mode, inputbuffer>>
                  ELSE /\ dialog' = Dialog("APIKey", id, "")
                       /\ editing_mode' = "Editing"
                       /\ inputbuffer' = <<>>
                       /\ UNCHANGED <<member_state, page>>
               /\ UNCHANGED <<storeVars, filter, network_state, last_error, members,
                              api_keys, member_count>>

(* 'f' *)
NetFlags ==
    /\ InNetworkList
    /\ IF GetIdPanics(savednetworksidx, Cursor)
       THEN Panic("f", 0)
       ELSE /\ dialog' = Dialog("NetworkFlags", get_network_id_by_pos(savednetworksidx, Cursor), "")
            /\ Done("f", 0, <<>>)
            /\ UNCHANGED <<storeVars, settingsVars, editing_mode, inputbuffer,
                           member_count, member_state>>

(* 'e': with a record and an API key for the selected network, fetch its
   rules, run $EDITOR on them and push them back if the file changed; every
   step returns its error with `?`. *)
NetEditRules ==
    /\ InNetworkList
    /\ IF GetIdPanics(savednetworksidx, Cursor)
       THEN Panic("e", 0)
       ELSE LET id == get_network_id_by_pos(savednetworksidx, Cursor)
            IN IF id \in DOMAIN savednetworks /\ id \in DOMAIN api_keys
               THEN RemoteCall("e", 0, <<"get_network", id>>)
               ELSE Done("e", 0, <<>>) /\ UNCHANGED <<storeVars, settingsVars, appVars>>

(* Any other character x: run the user's command template for x, if the
   configuration has one, on the selected network.  template_network
   panics on a network without an assigned address, run_command returns
   Ok or an error. *)
NetUserCommand ==
    /\ InNetworkList
    /\ IF GetIdPanics(savednetworksidx, Cursor)
       THEN Panic("x", 0)
       ELSE \E r \in {"none", "ok", "err", "panic"} :
              CASE r = "panic" /\ get_network_id_by_pos(savednetworksidx, Cursor) \in DOMAIN savednetworks ->
                      Panic("x", 0)
                [] r = "err" /\ get_network_id_by_pos(savednetworksidx, Cursor) \in DOMAIN savednetworks ->
                      Fail("x", 0, <<>>)
                [] OTHER ->
                      Done("x", 0, <<>>) /\ UNCHANGED <<storeVars, settingsVars, appVars>>

(* The keys of the flags editor and the NetworkFlag each one toggles. *)
FlagKeys == {"n", "d", "g", "m"}

FlagOfKey(key) ==
    CASE key = "n" -> "AllowDNS"
      [] key = "d" -> "AllowDefault"
      [] key = "g" -> "AllowGlobal"
      [] OTHER -> "AllowManaged"

(* Dialog::NetworkFlags(id): 'n', 'd', 'g', 'm' toggle a flag of id; the
   step records the request and, after it, the key that was pressed. *)
FlagsToggle ==
    /\ AtInput /\ editing_mode = "Command" /\ page.tag = "Networks"
    /\ dialog.tag = "NetworkFlags"
    /\ \E key \in FlagKeys :
         RemoteCall("flag", 0, <<"toggle_flag", dialog.id, FlagOfKey(key), key>>)

(* A flags editor whose 'q' ends the session, as 'q' on the list does. *)
FlagsClose_Quit ==
    /\ AtInput /\ editing_mode = "Command" /\ page.tag = "Networks"
    /\ dialog.tag = "NetworkFlags"
    /\ exit' = "quit"
    /\ pc' = pc
    /\ last' = Op("flags_close", 0, {}, <<>>)
    /\ UNCHANGED <<storeVars, settingsVars, appVars, auxVars>>

(* Dialog::NetworkFlags(id): Esc or 'q' closes the editor. *)
FlagsClose ==
    /\ AtInput /\ editing_mode = "Command" /\ page.tag = "Networks"
    /\ dialog.tag = "NetworkFlags"
    /\ dialog' = DialogNone
    /\ Done("flags_close", 0, <<>>)
    /\ UNCHANGED <<storeVars, settingsVars, editing_mode, inputbuffer, member_count, member_state>>

(* Page::Networks with any other dialog (Help, or Config before the next
   draw): the arm `_ => {}` of app.rs 482 takes every key, KeyCode::Esc
   included, and nothing changes. *)
NetDialogEsc ==
    /\ AtInput /\ editing_mode = "Command" /\ page.tag = "Networks"
    /\ dialog.tag \notin {"None", "NetworkFlags"}
    /\ Done("Esc", 0, <<>>)
    /\ UNCHANGED <<storeVars, settingsVars, appVars>>

----------------------------------------------------------------------------
(* App::command_mode_key on Page::Network(id) (app.rs 230-337) *)

InNetworkDetail == AtInput /\ editing_mode = "Command" /\ page.tag = "Network"

MemberCursor == unwrap_or_default(member_state)

(* KeyCode::Up *)
MemberUp ==
    /\ InNetworkDetail
    /\ member_state' =
         IF member_state # None /\ member_state[1] > 0
         THEN Some(member_state[1] - 1) ELSE member_state
    /\ Done("Up", 0, <<>>)
    /\ UNCHANGED <<storeVars, settingsVars, editing_mode, dialog, inputbuffer, member_count>>

(* KeyCode::Down *)
MemberDown ==
    /\ InNetworkDetail
    /\ member_state' =
         IF MemberCursor + 1 < member_count THEN Some(MemberCursor + 1) ELSE member_state
    /\ Done("Down", 0, <<>>)
    /\ UNCHANGED <<storeVars, settingsVars, editing_mode, dialog, inputbuffer, member_count>>

(* KeyCode::Esc *)
MemberEsc ==
    /\ InNetworkDetail
    /\ dialog' = DialogNone
    /\ editing_mode' = "Command"
    /\ Done("Esc", 0, <<>>)
    /\ UNCHANGED <<storeVars, settingsVars, inputbuffer, member_count, member_state>>

(* A member page whose 'q' ends the session, as 'q' on the list does. *)
MemberBack_Quit ==
    /\ InNetworkDetail
    /\ exit' = "quit"
    /\ pc' = pc
    /\ last' = Op("q", 0, {}, <<>>)
    /\ UNCHANGED <<storeVars, settingsVars, appVars, auxVars>>

(* 'q' *)
MemberBack ==
    /\ InNetworkDetail
    /\ page' = PageNetworks
    /\ member_state' = Some(0)
    /\ dialog' = DialogNone
    /\ editing_mode' = "Command"
    /\ Done("q", 0, <<>>)
    /\ UNCHANGED <<storeVars, filter, network_state, last_error, members, api_keys,
                   inputbuffer, member_count>>

(* 'h' *)
MemberHelp ==
    /\ InNetworkDetail
    /\ dialog' = IF dialog.tag = "Help" THEN DialogNone ELSE Dialog("Help", "", "")
    /\ Done("h", 0, <<>>)
    /\ UNCHANGED <<storeVars, settingsVars, editing_mode, inputbuffer, member_count, member_state>>

(* Whether the guards `if let Some(members)` and `if let Some(selected)` of
   'r', 'a', 'd', 'D' let the arm run. *)
MemberSelected == page.id \in DOMAIN members /\ member_state # None

(* members[selected] panics on an index out of range. *)
MemberIndexPanics == member_state[1] >= Len(members[page.id])

(* 'r' *)
MemberRename ==
    /\ InNetworkDetail
    /\ IF ~MemberSelected
       THEN Done("r", 0, <<>>) /\ UNCHANGED <<storeVars, settingsVars, appVars>>
       ELSE IF MemberIndexPanics
       THEN Panic("r", 0)
       ELSE LET m == members[page.id][member_state[1] + 1]
            IN /\ dialog' = Dialog("RenameMember", m.network_id, m.node_id)
               /\ editing_mode' = "Editing"
               /\ inputbuffer' = m.name
               /\ Done("r", 0, <<>>)
               /\ UNCHANGED <<storeVars, settingsVars, member_count, member_state>>

(* 'A' *)
MemberAdd ==
    /\ InNetworkDetail
    /\ dialog' = Dialog("AddMember", page.id, "")
    /\ editing_mode' = "Editing"
    /\ inputbuffer' = <<>>
    /\ Done("A", 0, <<>>)
    /\ UNCHANGED <<storeVars, settingsVars, member_count, member_state>>

(* 'a', 'd', 'D': authorize, deauthorize or delete the selected member;
   api_key_for_id(id).unwrap() panics without a key for the network. *)
MemberAction ==
    /\ InNetworkDetail
    /\ \E act \in {"authorize_member", "deauthorize_member", "delete_member"} :
         IF ~MemberSelected
         THEN Done(act, 0, <<>>) /\ UNCHANGED <<storeVars, settingsVars, appVars>>
         ELSE IF MemberIndexPanics \/ page.id \notin DOMAIN api_keys
         THEN Panic(act, 0)
         ELSE RemoteCall(act, 0,
                         <<act, page.id, members[page.id][member_state[1] + 1].node_id>>)

(* Any other character x: members.iter().nth(..) is asked for the row at
   the position of the network cursor (lock.network_state.selected()), and
   the member template for x, if there is one, is expanded over that
   member and run; the request names the member the command is run on. *)
MemberUserCommand ==
    /\ InNetworkDetail
    /\ IF page.id \in DOMAIN members /\ Cursor < Len(members[page.id])
       THEN LET member == members[page.id][Cursor + 1]
            IN \E r \in {"none", "ok", "err", "panic"} :
                 CASE r = "panic" -> Panic("x", 0)
                   [] r = "err" -> Fail("x", 0, <<"run_command", member.node_id>>)
                   [] r = "ok" ->
                        /\ Done("x", 0, <<"run_command", member.node_id>>)
                        /\ UNCHANGED <<storeVars, settingsVars, appVars>>
                   [] OTHER ->
                        /\ Done("x", 0, <<>>)
                        /\ UNCHANGED <<storeVars, settingsVars, appVars>>
       ELSE /\ Done("x", 0, <<>>)
            /\ UNCHANGED <<storeVars, settingsVars, appVars>>

----------------------------------------------------------------------------
(* App::edit_mode_key (app.rs 489-559) *)

(* The characters the operator types into a prompt: 'q', one byte in the
   UTF-8 of a String, and a letter with an accent, two bytes. *)
Chars == {"q", "e-acute"}

(* char::len_utf8 *)
len_utf8(c) == IF c = "e-acute" THEN 2 ELSE 1

(* inputbuffer.drain(len - 1..len) on a non-empty buffer: the range is in
   bytes, and String::drain panics when its start is not a char boundary,
   that is when the last character is longer than one byte. *)
DrainPanics(buf) == Len(buf) > 0 /\ len_utf8(buf[Len(buf)]) > 1

(* The longest text the operator types. *)
MaxBuf == 1

InEditing == AtInput /\ editing_mode = "Editing"

(* KeyCode::Char(x) *)
EditChar ==
    /\ InEditing
    /\ Len(inputbuffer) < MaxBuf
    /\ \E x \in Chars : inputbuffer' = Append(inputbuffer, x)
    /\ Done("char", 0, <<>>)
    /\ UNCHANGED <<storeVars, settingsVars, editing_mode, dialog, member_count, member_state>>

(* KeyCode::Esc *)
EditEsc ==
    /\ InEditing
    /\ inputbuffer' = <<>>
    /\ dialog' = DialogNone
    /\ editing_mode' = "Command"
    /\ Done("Esc", 0, <<>>)
    /\ UNCHANGED <<storeVars, settingsVars, member_count, member_state>>

(* KeyCode::Backspace *)
EditBackspace ==
    /\ InEditing
    /\ IF DrainPanics(inputbuffer)
       THEN Panic("backspace", 0)
       ELSE /\ inputbuffer' =
                 IF Len(inputbuffer) > 0
                 THEN SubSeq(inputbuffer, 1, Len(inputbuffer) - 1) ELSE inputbuffer
            /\ Done("backspace", 0, <<>>)
            /\ UNCHANGED <<storeVars, settingsVars, editing_mode, dialog, member_count,
                           member_state>>

(* The end of the Enter arm: the prompt is closed. *)
EditClose ==
    /\ inputbuffer' = <<>>
    /\ dialog' = DialogNone
    /\ editing_mode' = "Command"

(* An Enter arm that shows the network without storing the key. *)
EditEnterAPIKey_NoStore ==
    /\ InEditing
    /\ dialog.tag = "APIKey"
    /\ api_keys' = api_keys
    /\ page' = PageNetwork(dialog.id)
    /\ EditClose
    /\ Done("Enter", 0, <<>>)
    /\ UNCHANGED <<storeVars, filter, network_state, last_error, members,
                   member_count, member_state>>

(* KeyCode::Enter with Dialog::APIKey(id) *)
EditEnterAPIKey ==
    /\ InEditing
    /\ dialog.tag = "APIKey"
    /\ api_keys' = set_api_key_for_id(api_keys, dialog.id, inputbuffer)
    /\ page' = PageNetwork(dialog.id)
    /\ EditClose
    /\ Done("Enter", 0, <<>>)
    /\ UNCHANGED <<storeVars, filter, network_state, last_error, members,
                   member_count, member_state>>

(* An Enter arm that sends the request and leaves the prompt open. *)
EditEnterRemote_NoClose ==
    /\ InEditing
    /\ dialog.tag \in {"Join", "AddMember", "RenameMember"}
    /\ Done("Enter", 0,
            CASE dialog.tag = "Join" -> <<"join_network", inputbuffer>>
              [] dialog.tag = "AddMember" -> <<"authorize_member", dialog.id, inputbuffer>>
              [] OTHER -> <<"update_member_name", dialog.id, dialog.member, inputbuffer>>)
    /\ UNCHANGED <<storeVars, settingsVars, appVars>>

(* KeyCode::Enter with Dialog::Join, AddMember or RenameMember: a remote
   call whose error is unwrapped, as is the API key lookup of the member
   dialogs; RenameMember then shows the network of the member. *)
EditEnterRemote ==
    /\ InEditing
    /\ dialog.tag \in {"Join", "AddMember", "RenameMember"}
    /\ \E r \in {"ok", "err"} :
         IF r = "err" \/ (dialog.tag # "Join" /\ dialog.id \notin DOMAIN api_keys)
         THEN Panic("Enter", 0)
         ELSE /\ page' = IF dialog.tag = "RenameMember" THEN PageNetwork(dialog.id) ELSE page
              /\ EditClose
              /\ Done("Enter", 0,
                      CASE dialog.tag = "Join" -> <<"join_network", inputbuffer>>
                        [] dialog.tag = "AddMember" -> <<"authorize_member", dialog.id, inputbuffer>>
                        [] OTHER -> <<"update_member_name", dialog.id, dialog.member, inputbuffer>>)
              /\ UNCHANGED <<storeVars, filter, network_state, last_error, members, api_keys,
                             member_count, member_state>>

----------------------------------------------------------------------------
(* App::run (app.rs 101-136) and App::draw (app.rs 163-202) *)

(* App::set_dialog_api_key(id). *)
set_dialog_api_key(id) ==
    /\ page' = PageNetworks
    /\ dialog' = Dialog("APIKey", id, "")
    /\ editing_mode' = "Editing"
    /\ inputbuffer' = <<>>

(* display_network(f, app, members) leaves the length of the roster it
   draws in App.member_count. *)
display_network_count(roster) == Len(roster)

(* The columns App::show_toast keeps free (app.rs 147), and the widths of
   the terminal a frame may have: one narrower than that, one wider. *)
ToastReserve == 10

Widths == {9, 80}

(* App::show_toast(f, color, message): `size.width as usize - 10`
   overflows on a frame narrower than ten columns, and the rectangle it
   then draws into lies outside the frame. Messages are ASCII here, so
   truncate always cuts at a character boundary. *)
show_toast_panics(width) == width < ToastReserve

(* What App::draw does on a frame of the given width once the toast, if
   any, is through: on Page::Network(id) a stored error opens the API key
   prompt, and a known roster is drawn. *)
draw(width) ==
    /\ pc' = "input"
    /\ exit' = "none"
    /\ last' = Op("draw", 0, {}, <<>>)
    /\ IF page.tag = "Network" /\ last_error # None
       THEN set_dialog_api_key(page.id)
       ELSE /\ page' = page
            /\ editing_mode' = editing_mode
            /\ dialog' = IF dialog.tag = "Config" THEN DialogNone ELSE dialog
            /\ inputbuffer' = IF dialog.tag = "Config" THEN <<>> ELSE inputbuffer
    /\ member_count' =
         IF page.tag = "Network" /\ page.id \in DOMAIN members
         THEN display_network_count(members[page.id]) ELSE member_count
    /\ UNCHANGED <<storeVars, filter, network_state, last_error, members, api_keys,
                   member_state, auxVars>>

(* The top of the loop and the draw: a pending Dialog::Config is shown in
   the pager and closed; then the page is drawn. On Page::Network(id) a
   stored error and a missing roster are each shown as a toast, whose
   panic `self.draw(f, s).unwrap()` does not catch. *)
Draw ==
    /\ exit = "none" /\ pc = "draw"
    /\ \E width \in Widths :
         IF /\ page.tag = "Network"
            /\ (last_error # None \/ page.id \notin DOMAIN members)
            /\ show_toast_panics(width)
         THEN Panic("draw", width)
         ELSE draw(width)

(* No key within the tick, or a key no arm handles. *)
Idle ==
    /\ AtInput
    /\ Done("idle", 0, <<>>)
    /\ UNCHANGED <<storeVars, settingsVars, appVars>>

(* A terminal call of the loop (draw, poll, read, the pager's mute and
   unmute) returns an error, which App::run returns. *)
IoError ==
    /\ exit = "none"
    /\ exit' = "error"
    /\ last' = Op("io_error", 0, {}, <<>>)
    /\ UNCHANGED <<storeVars, settingsVars, appVars, pc, auxVars>>

----------------------------------------------------------------------------
(* The Background Refresher *)

(* The identifiers and the statuses the daemon reports in a session. *)
AppIds == {"n1"}

AppStatuses == {"OK"}

(* The members the cloud may list for a network, in the order it lists
   them, and the longest roster. *)
MemberIds == <<"m1", "m2", "m3">>

MemberNames == <<<<"q">>, <<>>, <<"q">>>>

MaxMembers == 2

Member(id, i) == [network_id |-> id, node_id |-> MemberIds[i], name |-> MemberNames[i]]

Rosters(id) == {[i \in 1..n |-> Member(id, i)] : n \in 0..MaxMembers}

(* On Page::Networks the refresher polls the daemon and merges the list
   into the store, holding the lock. *)
PollNetworksOver(U, S) ==
    /\ exit = "none"
    /\ page.tag = "Networks"
    /\ \E networks \in PollLists(U, S) :
         /\ update_networks(networks)
         /\ last' = Op("poll", 0, {}, <<"get_networks">>)
    /\ UNCHANGED <<settingsVars, appVars, pc, exit, auxVars>>

PollNetworks == PollNetworksOver(AppIds, AppStatuses)

(* On Page::Network(id) the refresher fetches the roster of id: a roster
   replaces the stored one, a failure sets last_error. *)
MemberFetchDue ==
    /\ exit = "none"
    /\ page.tag = "Network"
    /\ page.id \in DOMAIN api_keys

(* A refresher whose failed fetch also forgets the roster it had. *)
PollMembers_ForgetOnFailure ==
    /\ MemberFetchDue
    /\ last' = Op("poll_members", 0, {}, <<"get_members", page.id>>)
    /\ \/ /\ \E roster \in Rosters(page.id) :
               members' = [k \in DOMAIN members \cup {page.id} |->
                              IF k = page.id THEN roster ELSE members[k]]
          /\ UNCHANGED last_error
       \/ /\ last_error' = Some("error")
          /\ members' = [k \in DOMAIN members \ {page.id} |-> members[k]]
    /\ UNCHANGED <<storeVars, filter, page, network_state, api_keys, appVars, pc, exit, auxVars>>

PollMembers ==
    /\ MemberFetchDue
    /\ last' = Op("poll_members", 0, {}, <<"get_members", page.id>>)
    /\ \/ /\ \E roster \in Rosters(page.id) :
               members' = [k \in DOMAIN members \cup {page.id} |->
                              IF k = page.id THEN roster ELSE members[k]]
          /\ UNCHANGED last_error
       \/ /\ last_error' = Some("error")
          /\ UNCHANGED members
    /\ UNCHANGED <<storeVars, filter, page, network_state, api_keys, appVars, pc, exit, auxVars>>

----------------------------------------------------------------------------
(* The session: the loop, the key handlers and the refresher *)

Next ==
    \/ Draw \/ Idle \/ IoError
    \/ NetUp \/ NetDown \/ NetEsc \/ NetQuit \/ NetDelete \/ NetLeave \/ NetJoin
    \/ NetJoinPrompt \/ NetConfig \/ NetToggleFilter \/ NetHelp \/ NetShow \/ NetFlags
    \/ NetEditRules \/ NetUserCommand \/ FlagsToggle \/ FlagsClose \/ NetDialogEsc
    \/ MemberUp \/ MemberDown \/ MemberEsc \/ MemberBack \/ MemberHelp \/ MemberRename
    \/ MemberAdd \/ MemberAction \/ MemberUserCommand
    \/ EditChar \/ EditEsc \/ EditBackspace \/ EditEnterAPIKey \/ EditEnterRemote
    \/ PollNetworks \/ PollMembers

Spec == Init /\ [][Next]_vars

----------------------------------------------------------------------------
(* The network list alone: the keys that move the cursor or use it, and the
   refresher's merges, over a daemon that reports up to three networks. *)

NavIds == {"n1", "n2", "n3"}

NavPoll == PollNetworksOver(NavIds, AppStatuses)

NextNav ==
    \/ Draw \/ NavPoll
    \/ NetUp \/ NetDown \/ NetToggleFilter
    \/ NetDelete \/ NetLeave \/ NetJoin \/ NetConfig \/ NetShow \/ NetFlags
    \/ FlagsClose \/ EditEsc

SpecNav == Init /\ [][NextNav]_vars

----------------------------------------------------------------------------
(* run_app of main.rs (412-527): the list cursor of the single-page App *)

(* KeyCode::Up *)
ListUp ==
    /\ AtInput /\ editing_mode = "Command"
    /\ liststate' =
         IF liststate # None /\ liststate[1] > 0 THEN Some(liststate[1] - 1) ELSE liststate
    /\ pc' = "draw" /\ exit' = "none"
    /\ last' = Op("ListUp", 0, {}, <<>>)
    /\ UNCHANGED <<storeVars, settingsVars, appVars, listitems, tplVars, fileVars, cmdVars,
                   mainVars, extVars>>

(* KeyCode::Down *)
ListDown ==
    /\ AtInput /\ editing_mode = "Command"
    /\ liststate' =
         IF unwrap_or_default(liststate) + 1 < listitems
         THEN Some(unwrap_or_default(liststate) + 1) ELSE liststate
    /\ pc' = "draw" /\ exit' = "none"
    /\ last' = Op("ListDown", 0, {}, <<>>)
    /\ UNCHANGED <<storeVars, settingsVars, appVars, listitems, tplVars, fileVars, cmdVars,
                   mainVars, extVars>>

----------------------------------------------------------------------------
(* Up and Down over lists that do not change *)

(* The identifiers of the stores and the longest member table and
   main.rs list the cursors move over. *)
ClampIds == {"n1", "n2"}

MaxRows == 2

ClampStatuses == {"OK", STATUS_DISCONNECTED}

(* The positions a cursor over n rows may be at: unset, or 0..max(n-1, 0). *)
InRange(n) == {None} \cup {Some(i) : i \in 0..(IF n > 0 THEN n - 1 ELSE 0)}

(* Any store the merges and deletes can leave (every entry of the order
   list is a key of the map; a delete may have left keys out of the list),
   any filter, either page, and cursors unset or in range. *)
InitClamp ==
    /\ \E D \in SUBSET ClampIds : \E I \in SUBSET D :
         /\ savednetworksidx \in Orderings(I)
         /\ \E st \in [D -> ClampStatuses] :
              savednetworks = [id \in D |-> Network(id, st[id])]
    /\ filter \in {"None", "Connected"}
    /\ network_state \in
         InRange(IF CountPanics(savednetworks, savednetworksidx, filter)
                 THEN Len(savednetworksidx)
                 ELSE count(savednetworks, savednetworksidx, filter))
    /\ page \in {PageNetworks} \cup {PageNetwork(id) : id \in ClampIds}
    /\ last_error = None
    /\ members = <<>>
    /\ api_keys = <<>>
    /\ editing_mode = "Command"
    /\ dialog = DialogNone
    /\ inputbuffer = <<>>
    /\ member_count \in 0..MaxRows
    /\ member_state \in InRange(member_count)
    /\ listitems \in 0..MaxRows
    /\ liststate \in InRange(listitems)
    /\ InitTpl /\ InitFile /\ InitCmd /\ InitMainRunning /\ InitExt
    /\ pc = "input"
    /\ exit = "none"
    /\ last = Op("init", 0, {}, <<>>)

NextClamp ==
    \/ Draw
    \/ NetUp \/ NetDown \/ MemberUp \/ MemberDown \/ ListUp \/ ListDown

SpecClamp == InitClamp /\ [][NextClamp]_vars

----------------------------------------------------------------------------
(* UserConfig::command_for_network and command_for_member (config.rs 23-91) *)

(* str::replace(from, to): every match of from, found left to right without
   overlap, becomes to; text put in by a replacement is not scanned again
   by the same call. *)
RECURSIVE Replace(_, _, _)
Replace(s, from, to) ==
    IF Len(s) < Len(from) THEN s
    ELSE IF SubSeq(s, 1, Len(from)) = from
         THEN to \o Replace(SubSeq(s, Len(from) + 1, Len(s)), from, to)
         ELSE <<s[1]>> \o Replace(Tail(s), from, to)

Returned(v) == [tag |-> "ret", val |-> v]

Panicked == [tag |-> "panic", val |-> None]

(* template_network(s, network): the arguments of the three replace calls
   are evaluated whenever s is Some, whatever s contains. *)
template_network(s, network) ==
    IF s = None THEN Returned(None)
    ELSE IF \/ network.port_device_name = None
            \/ network.id = None
            \/ Len(network.assigned_addresses) = 0
         THEN Panicked
         ELSE Returned(Some(
                Replace(Replace(Replace(s[1],
                    <<"%", "i">>, network.port_device_name[1]),
                    <<"%", "n">>, network.id[1]),
                    <<"%", "a">>, network.assigned_addresses[1])))

(* template_member(s, member). *)
template_member(s, member) ==
    IF s = None THEN Returned(None)
    ELSE IF \/ member.network_id = None
            \/ member.node_id = None
            \/ member.name = None
            \/ member.ip_assignments = None
            \/ Len(member.ip_assignments[1]) = 0
         THEN Panicked
         ELSE Returned(Some(
                Replace(Replace(Replace(Replace(s[1],
                    <<"%", "n">>, member.network_id[1]),
                    <<"%", "i">>, member.node_id[1]),
                    <<"%", "N">>, member.name[1]),
                    <<"%", "a">>, member.ip_assignments[1][1])))

(* The characters and the longest text of a template in config.json. *)
TplChars == {"%", "i", "n", "a", "N"}

MaxTpl == 3

Templates == UNION {[1..n -> TplChars] : n \in 0..MaxTpl}

(* The records the daemon and the cloud deliver: a joined network with or
   without an assigned address, a member with or without one. *)
TplNetworks ==
    {[port_device_name |-> Some(<<"z">>), id |-> Some(<<"a">>), assigned_addresses |-> a] :
        a \in {<<>>, << <<"1">> >>}}

TplMembers ==
    {[network_id |-> Some(<<"a">>), node_id |-> Some(<<"b">>), name |-> Some(nm),
      ip_assignments |-> Some(a)] :
        nm \in {<<>>, <<"c">>}, a \in {<<>>, << <<"1">> >>}}

(* The key the operator pressed has a template in config.json, or none. *)
InitTemplate ==
    /\ InitSession /\ InitLegacy /\ InitFile /\ InitCmd /\ InitMainRunning /\ InitExt
    /\ tpl_s \in {None} \cup {Some(t) : t \in Templates}
    /\ tpl_rec = <<>>
    /\ tpl_out = [tag |-> "pending", val |-> None]

CommandForNetwork ==
    /\ \E network \in TplNetworks :
         /\ tpl_rec' = network
         /\ tpl_out' = template_network(tpl_s, network)
    /\ last' = Op("command_for_network", 0, {}, <<>>)
    /\ UNCHANGED <<storeVars, settingsVars, appVars, pc, exit, legacyVars, tpl_s,
                   fileVars, cmdVars, mainVars, extVars>>

CommandForMember ==
    /\ \E member \in TplMembers :
         /\ tpl_rec' = member
         /\ tpl_out' = template_member(tpl_s, member)
    /\ last' = Op("command_for_member", 0, {}, <<>>)
    /\ UNCHANGED <<storeVars, settingsVars, appVars, pc, exit, legacyVars, tpl_s,
                   fileVars, cmdVars, mainVars, extVars>>

NextTemplate == CommandForNetwork \/ CommandForMember

SpecTemplate == InitTemplate /\ [][NextTemplate]_vars

----------------------------------------------------------------------------
(* Settings::to_file and Settings::from_dir (config.rs 101-155) *)

(* The fields of Settings the model keeps, and those marked #[serde(skip)]. *)
SettingsFields ==
    {"api_keys", "savednetworks", "savednetworksidx", "members", "filter",
     "last_error", "page", "network_state"}

SerdeSkip_NotPage == {"last_error", "network_state", "user_config", "nets"}

SerdeSkip == {"last_error", "page", "network_state", "user_config", "nets"}

(* The fields serde writes as JSON objects. *)
MapFields == {"api_keys", "savednetworks", "members"}

(* Settings::default(). *)
SettingsDefault ==
    [api_keys |-> <<>>, savednetworks |-> <<>>, savednetworksidx |-> <<>>,
     members |-> <<>>, filter |-> "None",
     last_error |-> None, page |-> PageNetworks, network_state |-> None]

(* The Settings behind the lock. *)
CurrentSettings ==
    [api_keys |-> api_keys, savednetworks |-> savednetworks,
     savednetworksidx |-> savednetworksidx, members |-> members, filter |-> filter,
     last_error |-> last_error, page |-> page, network_state |-> network_state]

(* A HashMap is written as an object, a set of name/value members; a Vec
   and an enum are written as they are. *)
ToJson(f, v) == IF f \in MapFields THEN {<<k, v[k]>> : k \in DOMAIN v} ELSE v

FromJson(f, j) ==
    IF f \in MapFields
    THEN [k \in {m[1] : m \in j} |-> (CHOOSE m \in j : m[1] = k)[2]]
    ELSE j

(* serde_json::to_string_pretty(self): the fields not skipped. *)
to_string_pretty(settings) ==
    [f \in SettingsFields \ SerdeSkip |-> ToJson(f, settings[f])]

(* serde_json::from_str: a skipped field takes its Default. *)
from_str(doc) ==
    [f \in SettingsFields |->
        IF f \in SerdeSkip THEN SettingsDefault[f] ELSE FromJson(f, doc[f])]

(* Settings::to_file: the write succeeds and replaces settings.json, or
   fails and returns the error. *)
ToFile ==
    /\ exit = "none"
    /\ \E r \in {"ok", "err"} :
         /\ file' = IF r = "ok" THEN Some(to_string_pretty(CurrentSettings)) ELSE file
         /\ last' = Op("to_file", 0, {}, <<r>>)
    /\ UNCHANGED <<storeVars, settingsVars, appVars, pc, exit, legacyVars, tplVars, cmdVars,
                   mainVars, extVars>>

(* Settings::from_dir in a new process: the Settings read from
   settings.json, behind a fresh App. *)
FromDir ==
    /\ file # None
    /\ LET config == from_str(file[1])
       IN /\ api_keys' = config.api_keys
          /\ savednetworks' = config.savednetworks
          /\ savednetworksidx' = config.savednetworksidx
          /\ members' = config.members
          /\ filter' = config.filter
          /\ last_error' = config.last_error
          /\ page' = config.page
          /\ network_state' = config.network_state
    /\ editing_mode' = "Command"
    /\ dialog' = DialogNone
    /\ inputbuffer' = <<>>
    /\ member_count' = 0
    /\ member_state' = None
    /\ pc' = "draw"
    /\ exit' = "none"
    /\ last' = Op("from_dir", 0, {}, <<>>)
    /\ UNCHANGED <<file, legacyVars, tplVars, cmdVars, mainVars, extVars>>

(* The identifiers of the Settings values written. *)
PersistIds == {"n1", "n2"}

(* Any Settings value: any store, keys, rosters and filter, on any page,
   with any cursor and with or without a stored error. *)
InitPersist ==
    /\ \E I \in SUBSET PersistIds, D \in SUBSET PersistIds :
         /\ savednetworksidx \in Orderings(I)
         /\ \E st \in [D -> ClampStatuses] :
              savednetworks = [id \in D |-> Network(id, st[id])]
    /\ \E K \in SUBSET PersistIds : api_keys = [id \in K |-> <<"q">>]
    /\ members \in {<<>>} \cup {[id \in {"n1"} |-> r] : r \in Rosters("n1")}
    /\ filter \in {"None", "Connected"}
    /\ page \in {PageNetworks} \cup {PageNetwork(id) : id \in PersistIds}
    /\ network_state \in {None, Some(0), Some(1)}
    /\ last_error \in {None, Some("error")}
    /\ editing_mode = "Command"
    /\ dialog = DialogNone
    /\ inputbuffer = <<>>
    /\ member_count = 0
    /\ member_state = None
    /\ pc = "draw"
    /\ exit = "none"
    /\ last = Op("init", 0, {}, <<>>)
    /\ InitAux

NextPersist == ToFile \/ FromDir

SpecPersist == InitPersist /\ [][NextPersist]_vars

----------------------------------------------------------------------------
(* App::run_command (app.rs 561-631) and temp_mute_terminal! (terminal.rs
   27-39), statement by statement, beside the child task and the operator *)

cmdFrame ==
    <<storeVars, settingsVars, appVars, pc, legacyVars, tplVars, fileVars, mainVars, extVars>>

(* A key handler calls run_command(terminal, trap, s). *)
CmdCall ==
    /\ exit = "none"
    /\ cmd_pc \in {"idle", "returned"}
    /\ cmd_trap' \in BOOLEAN
    /\ cmd_pc' = "clear"
    /\ left' = 0 /\ entered' = 0
    /\ child' = "none" /\ reported' = FALSE /\ sigint' = FALSE
    /\ last' = Op("run_command", 0, {}, <<>>)
    /\ UNCHANGED <<cmdFrame, exit, raw_mode, alt_screen>>

(* A call whose io::Result is returned with `?`: it succeeds and the
   caller goes on to next, or fails and run_command returns the error, which
   App::run returns in turn. *)
Fallible(at, next, name) ==
    /\ exit = "none"
    /\ cmd_pc = at
    /\ last' = Op(name, 0, {}, <<>>)
    /\ \E r \in {"ok", "err"} :
         IF r = "ok"
         THEN cmd_pc' = next /\ exit' = exit
         ELSE /\ cmd_pc' = "returned" /\ exit' = "error"
              /\ UNCHANGED <<raw_mode, alt_screen, left, entered>>
    /\ UNCHANGED <<cmdFrame, cmd_trap, child, reported, sigint>>

(* terminal.clear()? *)
CmdClear ==
    /\ Fallible("clear", "build", "clear")
    /\ exit' = "none" => UNCHANGED <<raw_mode, alt_screen, left, entered>>

(* tokio::runtime::Builder::new_multi_thread().enable_all().build()? *)
CmdBuild ==
    /\ Fallible("build", "disable_raw", "build")
    /\ exit' = "none" => UNCHANGED <<raw_mode, alt_screen, left, entered>>

(* disable_raw_mode()? *)
CmdDisableRaw ==
    /\ Fallible("disable_raw", "leave_alt", "disable_raw_mode")
    /\ exit' = "none" =>
          /\ raw_mode' = FALSE /\ left' = left + 1
          /\ UNCHANGED <<alt_screen, entered>>

(* execute!(backend, LeaveAlternateScreen)? *)
CmdLeaveAlt ==
    /\ Fallible("leave_alt", "show_cursor", "LeaveAlternateScreen")
    /\ exit' = "none" =>
          /\ alt_screen' = FALSE /\ left' = left + 1
          /\ UNCHANGED <<raw_mode, entered>>

(* terminal.show_cursor()? *)
CmdShowCursor ==
    /\ Fallible("show_cursor", "spawn", "show_cursor")
    /\ exit' = "none" => UNCHANGED <<raw_mode, alt_screen, left, entered>>

(* The block of the macro: t.spawn(..) hands the task to the runtime and
   returns at once. *)
CmdSpawnTask ==
    /\ exit = "none"
    /\ cmd_pc = "spawn"
    /\ cmd_pc' = "enable_raw"
    /\ child' = "spawning"
    /\ last' = Op("spawn", 0, {}, <<>>)
    /\ UNCHANGED <<cmdFrame, exit, cmd_trap, raw_mode, alt_screen, left, entered,
                   reported, sigint>>

(* enable_raw_mode()? *)
CmdEnableRaw ==
    /\ Fallible("enable_raw", "enter_alt", "enable_raw_mode")
    /\ exit' = "none" =>
          /\ raw_mode' = TRUE /\ entered' = entered + 1
          /\ UNCHANGED <<alt_screen, left>>

(* execute!(backend, EnterAlternateScreen)? *)
CmdEnterAlt ==
    /\ Fallible("enter_alt", "hide_cursor", "EnterAlternateScreen")
    /\ exit' = "none" =>
          /\ alt_screen' = TRUE /\ entered' = entered + 1
          /\ UNCHANGED <<raw_mode, left>>

(* terminal.hide_cursor()? *)
CmdHideCursor ==
    /\ Fallible("hide_cursor", "clear_muted", "hide_cursor")
    /\ exit' = "none" => UNCHANGED <<raw_mode, alt_screen, left, entered>>

(* terminal.clear()? at the end of the macro *)
CmdClearMuted ==
    /\ Fallible("clear_muted", "wait", "clear_muted")
    /\ exit' = "none" => UNCHANGED <<raw_mode, alt_screen, left, entered>>

(* The loop on r.try_recv(): it ends when the task has sent child.wait(). *)
CmdWait ==
    /\ exit = "none"
    /\ cmd_pc = "wait"
    /\ reported
    /\ cmd_pc' = "prompt"
    /\ last' = Op("try_recv", 0, {}, <<>>)
    /\ UNCHANGED <<cmdFrame, exit, cmd_trap, raw_mode, alt_screen, left, entered,
                   child, reported, sigint>>

(* "Press ENTER to continue": stdin.read(..).unwrap() returns a byte or
   panics on a read error. *)
CmdPrompt ==
    /\ exit = "none"
    /\ cmd_pc = "prompt"
    /\ last' = Op("prompt", 0, {}, <<>>)
    /\ \E r \in {"ok", "err"} :
         IF r = "ok"
         THEN cmd_pc' = "clear_last" /\ exit' = exit
         ELSE cmd_pc' = cmd_pc /\ exit' = "panic"
    /\ UNCHANGED <<cmdFrame, cmd_trap, raw_mode, alt_screen, left, entered,
                   child, reported, sigint>>

(* terminal.clear()?; Ok(()) *)
CmdReturn ==
    /\ Fallible("clear_last", "returned", "return")
    /\ exit' = "none" => UNCHANGED <<raw_mode, alt_screen, left, entered>>

(* The task: Command::new("/bin/sh")..spawn().unwrap() starts the child, or
   panics, and then nothing is ever sent on the channel. *)
ChildSpawn ==
    /\ exit = "none"
    /\ child = "spawning"
    /\ child' \in {"running", "failed"}
    /\ last' = Op("child_spawn", 0, {}, <<>>)
    /\ UNCHANGED <<cmdFrame, exit, cmd_pc, cmd_trap, raw_mode, alt_screen, left, entered,
                   reported, sigint>>

(* The child ends, by itself or by the SIGTERM of the task, and the task
   sends child.wait() on the channel. *)
ChildExit ==
    /\ exit = "none"
    /\ child \in {"running", "killed"}
    /\ child' = "exited"
    /\ reported' = TRUE
    /\ last' = Op("child_exit", 0, {}, <<>>)
    /\ UNCHANGED <<cmdFrame, exit, cmd_pc, cmd_trap, raw_mode, alt_screen, left, entered,
                   sigint>>

(* The operator sends SIGINT while the command runs.  With trap the task
   is waiting on tokio::signal::ctrl_c(); without it no handler has been
   installed, and the signal ends the process. *)
Interrupt ==
    /\ exit = "none"
    /\ child = "running"
    /\ ~sigint
    /\ sigint' = TRUE
    /\ exit' = IF cmd_trap THEN exit ELSE "signal"
    /\ last' = Op("sigint", 0, {}, <<>>)
    /\ UNCHANGED <<cmdFrame, cmd_pc, cmd_trap, raw_mode, alt_screen, left, entered,
                   child, reported>>

(* `let _ = tokio::signal::ctrl_c().await` has resolved, with the signal
   or with an error that is dropped: kill(pid, SIGTERM) follows either
   way. *)
TrapKill ==
    /\ exit = "none"
    /\ cmd_trap
    /\ child = "running"
    /\ \E got \in {"signal", "error"} :
         /\ got = "signal" => sigint
         /\ last' = Op("sigterm", 0, {}, <<got>>)
    /\ child' = "killed"
    /\ UNCHANGED <<cmdFrame, exit, cmd_pc, cmd_trap, raw_mode, alt_screen, left, entered,
                   reported, sigint>>

NextCmd ==
    \/ CmdCall \/ CmdClear \/ CmdBuild
    \/ CmdDisableRaw \/ CmdLeaveAlt \/ CmdShowCursor \/ CmdSpawnTask
    \/ CmdEnableRaw \/ CmdEnterAlt \/ CmdHideCursor \/ CmdClearMuted
    \/ CmdWait \/ CmdPrompt \/ CmdReturn
    \/ ChildSpawn \/ ChildExit \/ Interrupt \/ TrapKill

SpecCmd == Init /\ [][NextCmd]_vars

----------------------------------------------------------------------------
(* main of main.rs (52-103), statement by statement *)

termRest == <<cmd_pc, cmd_trap, left, entered, child, reported, sigint>>

mainFrame == <<settingsVars, appVars, procVars, legacyVars, tplVars, termRest, extVars>>

(* A statement of main whose error is returned with `?`: main goes on to
   next, or returns the error where it stands. *)
MainFallible(at, next) ==
    /\ main_end = "running"
    /\ main_pc = at
    /\ \E r \in {"ok", "err"} :
         IF r = "ok"
         THEN main_pc' = next /\ main_end' = main_end
         ELSE /\ main_pc' = main_pc /\ main_end' = "err"
              /\ UNCHANGED <<raw_mode, alt_screen, file, storeVars>>
    /\ UNCHANGED <<mainFrame, secret_ok, printed>>

(* local_client_from_file(authtoken_path(None)).expect(..) *)
MainSecret ==
    /\ main_end = "running"
    /\ main_pc = "secret"
    /\ IF secret_ok
       THEN main_pc' = "enable_raw" /\ main_end' = main_end
       ELSE main_pc' = main_pc /\ main_end' = "panic"
    /\ UNCHANGED <<mainFrame, secret_ok, printed, raw_mode, alt_screen, file, storeVars>>

(* enable_raw_mode()? *)
MainEnableRaw ==
    /\ MainFallible("enable_raw", "enter_alt")
    /\ main_end' = "running" => raw_mode' = TRUE /\ UNCHANGED <<alt_screen, file, storeVars>>

(* execute!(stdout, EnterAlternateScreen)? *)
MainEnterAlt ==
    /\ MainFallible("enter_alt", "terminal")
    /\ main_end' = "running" => alt_screen' = TRUE /\ UNCHANGED <<raw_mode, file, storeVars>>

(* Terminal::new(backend)? and the App literal *)
MainTerminal ==
    /\ MainFallible("terminal", "load")
    /\ main_end' = "running" => UNCHANGED <<raw_mode, alt_screen, file, storeVars>>

(* The saved networks: the file's text, or "{}" if it cannot be read, is
   parsed, and a parse error is returned. *)
MainLoad ==
    /\ main_end = "running"
    /\ main_pc = "load"
    /\ \E r \in {"ok"} \cup (IF file = None THEN {} ELSE {"err"}) :
         IF r = "ok"
         THEN /\ savednetworks' =
                   IF file = None THEN <<>> ELSE FromJson("savednetworks", file[1])
              /\ main_pc' = "clear" /\ main_end' = main_end
         ELSE /\ savednetworks' = savednetworks
              /\ main_pc' = main_pc /\ main_end' = "err"
    /\ UNCHANGED <<mainFrame, secret_ok, printed, raw_mode, alt_screen, file, savednetworksidx>>

(* terminal.clear()?; run_app is entered. *)
MainClear ==
    /\ MainFallible("clear", "run")
    /\ main_end' = "running" => UNCHANGED <<raw_mode, alt_screen, file, storeVars>>

(* A main that goes from the session straight to printing its error. *)
MainRunEnd_PrintFirst ==
    /\ main_end = "running"
    /\ main_pc = "run"
    /\ exit \in {"quit", "error"}
    /\ main_pc' = "print"
    /\ UNCHANGED <<mainFrame, main_end, secret_ok, printed, raw_mode, alt_screen, file,
                   storeVars>>

(* let res = run_app(..): the session has ended with Ok or with an error. *)
MainRunEnd ==
    /\ main_end = "running"
    /\ main_pc = "run"
    /\ exit \in {"quit", "error"}
    /\ main_pc' = "save"
    /\ UNCHANGED <<mainFrame, main_end, secret_ok, printed, raw_mode, alt_screen, file,
                   storeVars>>

(* std::fs::write(path, serde_json::to_string(&app.savednetworks)?)? *)
MainSave ==
    /\ MainFallible("save", "disable_raw")
    /\ main_end' = "running" =>
          /\ file' = Some(ToJson("savednetworks", savednetworks))
          /\ UNCHANGED <<raw_mode, alt_screen, storeVars>>

(* disable_raw_mode()? *)
MainDisableRaw ==
    /\ MainFallible("disable_raw", "leave_alt")
    /\ main_end' = "running" => raw_mode' = FALSE /\ UNCHANGED <<alt_screen, file, storeVars>>

(* execute!(backend, LeaveAlternateScreen)? *)
MainLeaveAlt ==
    /\ MainFallible("leave_alt", "show_cursor")
    /\ main_end' = "running" => alt_screen' = FALSE /\ UNCHANGED <<raw_mode, file, storeVars>>

(* terminal.show_cursor()? *)
MainShowCursor ==
    /\ MainFallible("show_cursor", "print")
    /\ main_end' = "running" => UNCHANGED <<raw_mode, alt_screen, file, storeVars>>

(* if let Err(err) = res { println!(..) } *)
MainPrint ==
    /\ main_end = "running"
    /\ main_pc = "print"
    /\ printed' = (exit = "error")
    /\ main_pc' = "return"
    /\ UNCHANGED <<mainFrame, main_end, secret_ok, raw_mode, alt_screen, file, storeVars>>

(* Ok(()) *)
MainReturn ==
    /\ main_end = "running"
    /\ main_pc = "return"
    /\ main_end' = "ok"
    /\ UNCHANGED <<mainFrame, main_pc, secret_ok, printed, raw_mode, alt_screen, file,
                   storeVars>>

(* Someone removes authtoken.secret or makes it unreadable. *)
SecretLost ==
    /\ main_end = "running"
    /\ secret_ok
    /\ secret_ok' = FALSE
    /\ UNCHANGED <<mainFrame, main_pc, main_end, printed, raw_mode, alt_screen, file,
                   storeVars>>

----------------------------------------------------------------------------
(* run_app and display_networks of main.rs (170-245, 412-527).  The App of
   main.rs has the fields editing_mode, dialog, inputbuffer, savednetworks
   and savednetworksidx of the later App and Settings, and its own list
   cursor. *)

LegIds == {"n1", "n2"}

legRest == <<settingsVars, member_count, member_state, tplVars, fileVars, mainVars, extVars>>

InRunApp == main_end = "running" /\ main_pc = "run" /\ exit = "none"

(* The arm is done and the loop goes round. *)
LegDone(name, req) ==
    /\ pc' = "draw"
    /\ exit' = "none"
    /\ last' = Op(name, 0, {}, req)
    /\ UNCHANGED <<legRest, cmdVars>>

(* The arm panicked. *)
LegPanic(name) ==
    /\ pc' = pc
    /\ exit' = "panic"
    /\ last' = Op(name, 0, {}, <<>>)
    /\ UNCHANGED <<legRest, cmdVars, storeVars, editing_mode, dialog, inputbuffer, legacyVars>>

(* What display_networks receives for what the daemon does: get_networks
   reads authtoken.secret anew, and sends only a list it has got. *)
FetchResult(daemon) ==
    IF ~secret_ok THEN "failed"
    ELSE CASE daemon = "answers" -> "answered"
           [] daemon = "fails" -> "failed"
           [] OTHER -> "silent"

(* The top of the loop and the start of the draw: a pending Dialog::Config
   is shown in the pager and closed; display_networks spawns get_networks
   and loops on try_recv until a list arrives. *)
LegFetch ==
    /\ InRunApp /\ pc = "draw"
    /\ dialog' = IF dialog.tag = "Config" THEN DialogNone ELSE dialog
    /\ \E daemon \in {"answers", "fails", "silent"} :
         /\ pc' = IF FetchResult(daemon) = "answered" THEN "merge" ELSE "spin"
         /\ last' = Op("fetch", 0, {}, <<daemon, FetchResult(daemon)>>)
    /\ exit' = exit
    /\ UNCHANGED <<legRest, cmdVars, storeVars, editing_mode, inputbuffer, legacyVars>>

(* A step of the pager's terminal switching fails and run_app returns the
   error, with the terminal as far as the switching got. *)
LegPagerError ==
    /\ InRunApp /\ pc = "draw"
    /\ dialog.tag = "Config"
    /\ raw_mode' \in BOOLEAN /\ alt_screen' \in BOOLEAN
    /\ exit' = "error"
    /\ pc' = pc
    /\ last' = Op("pager_error", 0, {}, <<>>)
    /\ UNCHANGED <<legRest, termRest, storeVars, editing_mode, dialog, inputbuffer, legacyVars>>

(* The list has arrived: it is merged into the store, and the rows are
   built from the order list; a row without a record panics. *)
LegMerge ==
    /\ InRunApp /\ pc = "merge"
    /\ \E networks \in PollLists(LegIds, AppStatuses) : update_networks(networks)
    /\ last' = Op("merge", 0, {}, <<>>)
    /\ IF Range(savednetworksidx') \subseteq DOMAIN savednetworks'
       THEN listitems' = Len(savednetworksidx') /\ pc' = "input" /\ exit' = exit
       ELSE listitems' = listitems /\ pc' = pc /\ exit' = "panic"
    /\ UNCHANGED <<legRest, cmdVars, editing_mode, dialog, inputbuffer, liststate>>

(* No key within the tick, or a key no arm handles. *)
LegIdle ==
    /\ InRunApp /\ pc = "input"
    /\ LegDone("idle", <<>>)
    /\ UNCHANGED <<storeVars, editing_mode, dialog, inputbuffer, legacyVars>>

(* terminal.draw, event::poll or event::read returns an error. *)
LegIoError ==
    /\ InRunApp /\ pc \in {"draw", "input"}
    /\ exit' = "error"
    /\ pc' = pc
    /\ last' = Op("io_error", 0, {}, <<>>)
    /\ UNCHANGED <<legRest, cmdVars, storeVars, editing_mode, dialog, inputbuffer, legacyVars>>

InLegCommand == InRunApp /\ pc = "input" /\ editing_mode = "Command"

ListCursor == unwrap_or_default(liststate)

(* KeyCode::Esc *)
LegEsc ==
    /\ InLegCommand
    /\ dialog' = DialogNone
    /\ editing_mode' = "Command"
    /\ LegDone("Esc", <<>>)
    /\ UNCHANGED <<storeVars, inputbuffer, legacyVars>>

(* 'q': return Ok(()) *)
LegQuit ==
    /\ InLegCommand
    /\ exit' = "quit"
    /\ pc' = pc
    /\ last' = Op("q", 0, {}, <<>>)
    /\ UNCHANGED <<legRest, cmdVars, storeVars, editing_mode, dialog, inputbuffer, legacyVars>>

(* 'd' *)
LegDelete ==
    /\ InLegCommand
    /\ IF RemovePanics(savednetworksidx, ListCursor)
       THEN LegPanic("d")
       ELSE /\ remove_network(ListCursor)
            /\ LegDone("d", <<>>)
            /\ UNCHANGED <<editing_mode, dialog, inputbuffer, legacyVars>>

(* 'l' and 'j': the request is spawned and not waited for. *)
LegLeaveJoin ==
    /\ InLegCommand
    /\ \E c \in {"l", "j"} :
         IF GetIdPanics(savednetworksidx, ListCursor)
         THEN LegPanic(c)
         ELSE /\ LegDone(c, <<IF c = "l" THEN "leave_network" ELSE "join_network",
                              get_network_id_by_pos(savednetworksidx, ListCursor)>>)
              /\ UNCHANGED <<storeVars, editing_mode, dialog, inputbuffer, legacyVars>>

(* 'J': the buffer is left as it is. *)
LegJoinPrompt ==
    /\ InLegCommand
    /\ dialog' = Dialog("Join", "", "")
    /\ editing_mode' = "Editing"
    /\ LegDone("J", <<>>)
    /\ UNCHANGED <<storeVars, inputbuffer, legacyVars>>

(* 'c' *)
LegConfig ==
    /\ InLegCommand
    /\ IF GetIdPanics(savednetworksidx, ListCursor)
       THEN LegPanic("c")
       ELSE /\ inputbuffer' = ConfigJson(savednetworks, savednetworksidx, ListCursor)
            /\ dialog' = Dialog("Config", "", "")
            /\ LegDone("c", <<>>)
            /\ UNCHANGED <<storeVars, editing_mode, legacyVars>>

InLegEditing == InRunApp /\ pc = "input" /\ editing_mode = "Editing"

(* KeyCode::Char(x) *)
LegEditChar ==
    /\ InLegEditing
    /\ Len(inputbuffer) < MaxBuf
    /\ \E x \in Chars : inputbuffer' = Append(inputbuffer, x)
    /\ LegDone("char", <<>>)
    /\ UNCHANGED <<storeVars, editing_mode, dialog, legacyVars>>

(* KeyCode::Esc *)
LegEditEsc ==
    /\ InLegEditing
    /\ inputbuffer' = <<>>
    /\ dialog' = DialogNone
    /\ editing_mode' = "Command"
    /\ LegDone("Esc", <<>>)
    /\ UNCHANGED <<storeVars, legacyVars>>

(* KeyCode::Backspace *)
LegEditBackspace ==
    /\ InLegEditing
    /\ IF DrainPanics(inputbuffer)
       THEN LegPanic("backspace")
       ELSE /\ inputbuffer' =
                 IF Len(inputbuffer) > 0
                 THEN SubSeq(inputbuffer, 1, Len(inputbuffer) - 1) ELSE inputbuffer
            /\ LegDone("backspace", <<>>)
            /\ UNCHANGED <<storeVars, editing_mode, dialog, legacyVars>>

(* KeyCode::Enter: join_network(inputbuffer) is spawned and not waited for. *)
LegEditEnter ==
    /\ InLegEditing
    /\ inputbuffer' = <<>>
    /\ dialog' = DialogNone
    /\ editing_mode' = "Command"
    /\ LegDone("Enter", <<"join_network", inputbuffer>>)
    /\ UNCHANGED <<storeVars, legacyVars>>

(* The program of main.rs before it starts: the terminal as the shell left
   it, the secret there or not, a networks file there or not. *)
InitMain ==
    /\ InitSession /\ InitLegacy /\ InitTpl
    /\ file \in {None} \cup
                {Some(ToJson("savednetworks", [id \in D |-> Network(id, "OK")])) :
                    D \in SUBSET LegIds}
    /\ cmd_pc = "idle" /\ cmd_trap = FALSE
    /\ raw_mode = FALSE /\ alt_screen = FALSE
    /\ left = 0 /\ entered = 0
    /\ child = "none" /\ reported = FALSE /\ sigint = FALSE
    /\ main_pc = "secret"
    /\ main_end = "running"
    /\ secret_ok \in BOOLEAN
    /\ printed = FALSE
    /\ InitExt

NextMain ==
    \/ MainSecret \/ MainEnableRaw \/ MainEnterAlt \/ MainTerminal \/ MainLoad \/ MainClear
    \/ MainRunEnd \/ MainSave \/ MainDisableRaw \/ MainLeaveAlt \/ MainShowCursor
    \/ MainPrint \/ MainReturn \/ SecretLost
    \/ LegFetch \/ LegPagerError \/ LegMerge \/ LegIdle \/ LegIoError
    \/ ListUp \/ ListDown \/ LegEsc \/ LegQuit \/ LegDelete \/ LegLeaveJoin
    \/ LegJoinPrompt \/ LegConfig
    \/ LegEditChar \/ LegEditEsc \/ LegEditBackspace \/ LegEditEnter

SpecMain == InitMain /\ [][NextMain]_vars

----------------------------------------------------------------------------
(* Properties of the network store, under SpecStore *)

(* C1: in every reachable state the order list has as many entries as the
   map has keys, and every entry of the order list is a key of the map. *)
C1_IndexIntegrity ==
    /\ Len(savednetworksidx) = Cardinality(DOMAIN savednetworks)
    /\ Range(savednetworksidx) \subseteq DOMAIN savednetworks

(* The list s without its entry at the zero-based position pos. *)
RemoveAt(s, pos) == SubSeq(s, 1, pos) \o SubSeq(s, pos + 2, Len(s))

(* C2: remove_network(pos) with 0 <= pos < n does not fail, takes exactly
   the entry at pos out of the order list, and removes exactly that
   identifier from the map. *)
C2_DeleteRemovesSelected ==
    [][(last'.op = "remove" /\ last'.pos < Len(savednetworksidx)) =>
         /\ exit' = "none"
         /\ savednetworksidx' = RemoveAt(savednetworksidx, last'.pos)
         /\ DOMAIN savednetworks' =
                DOMAIN savednetworks \ {savednetworksidx[last'.pos + 1]}
         /\ \A id \in DOMAIN savednetworks' : savednetworks'[id] = savednetworks[id]]_vars

(* C5: after a poll, every network known before and absent from the poll
   is DISCONNECTED and still in the map and in the order list, and the
   poll removed no identifier from either. *)
C5_SoftDelete ==
    [][last'.op = "poll" =>
         /\ DOMAIN savednetworks \subseteq DOMAIN savednetworks'
         /\ Range(savednetworksidx) \subseteq Range(savednetworksidx')
         /\ \A id \in DOMAIN savednetworks \ last'.ids :
              /\ savednetworks'[id].status = STATUS_DISCONNECTED
              /\ id \in Range(savednetworksidx')]_vars

(* C5's case: a poll has run and left a known network out, which is now
   DISCONNECTED although the daemon had reported it connected. *)
C5_Witness ==
    /\ last.op = "poll"
    /\ \E id \in DOMAIN savednetworks \ last.ids :
         /\ savednetworks[id].status = STATUS_DISCONNECTED
         /\ id \in Range(savednetworksidx)

----------------------------------------------------------------------------
(* Properties of the cursors *)

(* The largest position of a list of n rows. *)
LastRow(n) == IF n > 0 THEN n - 1 ELSE 0

(* C3: over lists held fixed, from cursors unset or in range, Up and Down
   keep every cursor within [0, max(n-1, 0)], where n is count() for the
   network list, member_count for the member table and listitems.len() for
   the list of main.rs; and no Up or Down fails where count() has a value,
   n = 0 included. *)
C3_SelectionClamped ==
    /\ ~CountPanics(savednetworks, savednetworksidx, filter) =>
          /\ exit # "none" => last.op \notin {"Up", "Down"}
          /\ Cursor <= LastRow(count(savednetworks, savednetworksidx, filter))
    /\ MemberCursor <= LastRow(member_count)
    /\ unwrap_or_default(liststate) <= LastRow(listitems)

(* C3's cases: Down has stopped at the last row of a list of two networks;
   Down has left the cursor of an empty member table unset. *)
C3_Witness ==
    \/ /\ last.op = "Down" /\ page.tag = "Networks"
       /\ ~CountPanics(savednetworks, savednetworksidx, filter)
       /\ count(savednetworks, savednetworksidx, filter) = 2
       /\ network_state = Some(1)
    \/ /\ last.op = "Down" /\ page.tag = "Network"
       /\ member_count = 0 /\ member_state = None

(* C4: whenever 'd', 'l', 'j', 'c', 's' or 'f' runs on the network list, the
   cursor is a position of the order list, and the lookup does not fail. *)
C4_CursorValidWhenUsed ==
    [][last'.op \in {"d", "l", "j", "c", "s", "f"} =>
         /\ Cursor < Len(savednetworksidx)
         /\ exit' # "panic"]_vars

(* C6: 't' on the network list turns ListFilter::None into Connected and
   Connected into None, sets the cursor to 0 whatever it was, and a second
   't' gives the filter it started from. *)
C6_FilterReset ==
    [][last'.op = "t" =>
         /\ filter = "None" => filter' = "Connected"
         /\ filter = "Connected" => filter' = "None"
         /\ network_state' = Some(0)
         /\ ToggleFilter(filter') = filter]_vars

(* C6's case: 't' has run with the cursor on the third row and has put it
   on the first. *)
C6_Witness ==
    /\ last.op = "t" /\ last.pos = 2
    /\ network_state = Some(0)
    /\ filter = "Connected"

----------------------------------------------------------------------------
(* Properties of the session, under Spec *)

(* C7: 's' on a network without a stored API key keeps Page::Networks,
   opens Dialog::APIKey for that network in Editing mode with an empty
   buffer, and the refresher has no roster to fetch; Enter in that dialog
   stores the typed key for the network, shows Page::Network of it, and the
   refresher's roster fetch for it is due. *)
C7_CredentialGating ==
    [][/\ (/\ last'.op = "s"
            /\ exit' = "none"
            /\ get_network_id_by_pos(savednetworksidx, Cursor) \notin DOMAIN api_keys) =>
              /\ page' = PageNetworks
              /\ dialog' = Dialog("APIKey", get_network_id_by_pos(savednetworksidx, Cursor), "")
              /\ editing_mode' = "Editing"
              /\ inputbuffer' = <<>>
              /\ last'.req = <<>>
              /\ ~MemberFetchDue'
       /\ (last'.op = "Enter" /\ dialog.tag = "APIKey") =>
              /\ dialog.id \in DOMAIN api_keys'
              /\ api_keys'[dialog.id] = inputbuffer
              /\ page' = PageNetwork(dialog.id)
              /\ MemberFetchDue']_vars

(* C7's case: the operator has typed a key into the prompt that 's' opened
   for n1 and pressed Enter; no roster has been fetched yet. *)
C7_Witness ==
    /\ last.op = "Enter" /\ last.req = <<>>
    /\ page = PageNetwork("n1")
    /\ "n1" \in DOMAIN api_keys /\ api_keys["n1"] = <<"q">>
    /\ last_error = None
    /\ members = <<>>

----------------------------------------------------------------------------
(* Properties of the command templates, under SpecTemplate *)

(* The text s with every placeholder %x, x a key of values, replaced by
   values[x] in one pass, and every other character kept. *)
RECURSIVE Substituted(_, _)
Substituted(s, values) ==
    IF Len(s) = 0 THEN s
    ELSE IF Len(s) >= 2 /\ s[1] = "%" /\ s[2] \in DOMAIN values
         THEN values[s[2]] \o Substituted(SubSeq(s, 3, Len(s)), values)
         ELSE <<s[1]>> \o Substituted(Tail(s), values)

(* What the placeholders of a template stand for, given the record; %a has
   a value only if the record has an address. *)
NetworkValues(network) ==
    [x \in {"i", "n"} \cup (IF Len(network.assigned_addresses) > 0 THEN {"a"} ELSE {}) |->
        CASE x = "i" -> network.port_device_name[1]
          [] x = "n" -> network.id[1]
          [] OTHER -> network.assigned_addresses[1]]

MemberValues(member) ==
    [x \in {"n", "i", "N"} \cup (IF Len(member.ip_assignments[1]) > 0 THEN {"a"} ELSE {}) |->
        CASE x = "n" -> member.network_id[1]
          [] x = "i" -> member.node_id[1]
          [] x = "N" -> member.name[1]
          [] OTHER -> member.ip_assignments[1][1]]

(* Whether the text names the placeholder %a. *)
NamesAddress(s) == \E i \in 1..(Len(s) - 1) : s[i] = "%" /\ s[i + 1] = "a"

(* C8: for every template and every record, command_for_network and
   command_for_member return the template with its placeholders replaced by
   the record's values and the rest of the text as it was; a template
   without %a is returned so whether or not the record has an address. *)
C8_TemplateSubstitution ==
    (tpl_out.tag # "pending" /\ tpl_s # None) =>
        LET values == IF last.op = "command_for_network"
                      THEN NetworkValues(tpl_rec) ELSE MemberValues(tpl_rec)
        IN ("a" \in DOMAIN values \/ ~NamesAddress(tpl_s[1])) =>
              tpl_out = Returned(Some(Substituted(tpl_s[1], values)))

----------------------------------------------------------------------------
(* Properties of the settings file, under SpecPersist *)

(* C9: from_dir right after a successful to_file gives the map, the order
   list, the API keys and the filter that were written, and gives the page,
   the network cursor and last_error their initial values, whatever they
   were when written. *)
C9_RoundTrip ==
    [][(last'.op = "from_dir" /\ last.op = "to_file" /\ last.req = <<"ok">>) =>
         /\ savednetworks' = savednetworks
         /\ savednetworksidx' = savednetworksidx
         /\ api_keys' = api_keys
         /\ filter' = filter
         /\ page' = PageNetworks
         /\ network_state' = None
         /\ last_error' = None]_vars

(* C9's case: a Settings value with two networks, a key, the Connected
   filter and a roster has been read back. *)
C9_Witness ==
    /\ last.op = "from_dir"
    /\ Len(savednetworksidx) = 2
    /\ DOMAIN savednetworks = PersistIds
    /\ DOMAIN api_keys = {"n2"}
    /\ filter = "Connected"
    /\ page = PageNetworks /\ network_state = None /\ last_error = None

----------------------------------------------------------------------------
(* Properties of command delegation, under SpecCmd *)

(* C10: on every path on which run_command returns, with Ok or with an
   error, every leave of raw mode and of the alternate screen has been
   matched by a re-entry: raw mode is on and the alternate screen is
   active. *)
C10_LeaveMatchedByEntry ==
    cmd_pc = "returned" =>
        /\ left = entered
        /\ raw_mode
        /\ alt_screen

----------------------------------------------------------------------------
(* Properties of main.rs, under SpecMain *)

(* main has entered raw mode and the alternate screen. *)
SetupDone == main_pc \notin {"secret", "enable_raw", "enter_alt"}

(* C11: once raw mode and the alternate screen have been entered, main
   returns, with Ok or with an error, only after it has left both. *)
C11_TeardownPaired ==
    (main_end \in {"ok", "err"} /\ SetupDone) => (~raw_mode /\ ~alt_screen)

(* C12: when main returns Ok after a quit, the networks file holds the
   store and the terminal is restored; and the error of the session is
   printed only with raw mode off and the alternate screen left. *)
C12_ExitOrdering ==
    /\ (main_end = "ok" /\ exit = "quit") =>
          /\ file = Some(ToJson("savednetworks", savednetworks))
          /\ ~raw_mode /\ ~alt_screen
          /\ ~printed
    /\ printed => (exit = "error" /\ ~raw_mode /\ ~alt_screen)

(* C12's case: the session ended with an error, main tore the terminal
   down, printed the error and returned. *)
C12_Witness ==
    /\ main_end = "ok"
    /\ exit = "error"
    /\ printed
    /\ file # None

----------------------------------------------------------------------------
(* Errors of the operator's remote actions *)

(* The handlers of App::command_mode_key and App::edit_mode_key that call
   the Remote Gateway, by the label of their step. *)
RemoteOps ==
    {"l", "j", "flag", "e", "authorize_member", "deauthorize_member",
     "delete_member", "Enter"}

(* C13: a remote action issued by the operator never ends the session: after
   every step of a handler that sent a request to the Remote Gateway,
   whatever the answer, the loop is still running (no exit, no panic). *)
C13_RemoteFailureSurvives ==
    [][(last'.op \in RemoteOps /\ last'.req # <<>>) => exit' = "none"]_vars

----------------------------------------------------------------------------
(* The Settings lock in the key handlers (app.rs 204-559).  The session of
   Spec is taken in finer steps: a handler takes the lock, starts a blocking
   call, the call returns and the handler finishes, and the guard is dropped
   when the handler returns. *)

(* The blocking calls of the handlers, by arm: the condition under which the
   arm reaches its call. *)
CallKeys == {"l", "j", "e", "flag", "member", "x", "Join", "Enter"}

CallGuard(k) ==
    CASE k \in {"l", "j"} ->
            InNetworkList /\ ~GetIdPanics(savednetworksidx, Cursor)
      [] k = "e" ->
            /\ InNetworkList /\ ~GetIdPanics(savednetworksidx, Cursor)
            /\ get_network_id_by_pos(savednetworksidx, Cursor) \in DOMAIN savednetworks
            /\ get_network_id_by_pos(savednetworksidx, Cursor) \in DOMAIN api_keys
      [] k = "flag" ->
            /\ AtInput /\ editing_mode = "Command" /\ page.tag = "Networks"
            /\ dialog.tag = "NetworkFlags"
      [] k = "member" ->
            /\ InNetworkDetail /\ MemberSelected /\ ~MemberIndexPanics
            /\ page.id \in DOMAIN api_keys
      [] k = "x" ->
            \/ /\ InNetworkList /\ ~GetIdPanics(savednetworksidx, Cursor)
               /\ get_network_id_by_pos(savednetworksidx, Cursor) \in DOMAIN savednetworks
            \/ /\ InNetworkDetail /\ page.id \in DOMAIN members
               /\ Cursor < Len(members[page.id])
      [] k = "Join" ->
            InEditing /\ dialog.tag = "Join"
      [] k = "Enter" ->
            /\ InEditing /\ dialog.tag \in {"AddMember", "RenameMember"}
            /\ dialog.id \in DOMAIN api_keys
      [] OTHER -> FALSE

(* The arm of Dialog::Join calls join_network without taking the lock
   (app.rs 513); every other arm calls below the guard of line 228, 521
   or 535. *)
CallsUnder(k) == IF k = "Join" THEN "free" ELSE "ui"

lockFrame == <<storeVars, settingsVars, appVars, procVars,
               legacyVars, tplVars, fileVars, cmdVars, mainVars, gwVars>>

(* settings.lock().unwrap(): command_mode_key takes the lock for every key
   (app.rs 228); edit_mode_key takes it in the Enter arms of APIKey,
   AddMember and RenameMember (app.rs 516, 521, 535). *)
KeyLock ==
    /\ AtInput
    /\ lock = "free" /\ call = "none"
    /\ \/ editing_mode = "Command"
       \/ editing_mode = "Editing" /\ dialog.tag \in {"APIKey", "AddMember", "RenameMember"}
    /\ lock' = "ui"
    /\ UNCHANGED <<call, lockFrame>>

(* The arm reaches its blocking call: a crate::client function, or
   App::run_command for a user command. *)
CallBegin ==
    /\ call = "none"
    /\ \E k \in CallKeys :
         /\ CallGuard(k)
         /\ lock = CallsUnder(k)
         /\ call' = k
    /\ UNCHANGED <<lock, lockFrame>>

(* The rest of an arm of command_mode_key that calls as k: the call has
   returned, or the arm did not reach it. *)
Locked(k) ==
    /\ lock = "ui"
    /\ \/ call = k
       \/ call = "none" /\ ~CallGuard(k)

(* An arm of command_mode_key without a blocking call. *)
LockedPlain == lock = "ui" /\ call = "none"

(* An arm of edit_mode_key that does not lock. *)
Unlocked == lock = "free" /\ call = "none"

(* The handler has returned to App::run: its guard is dropped. *)
Unlock ==
    /\ exit = "none" /\ pc = "draw"
    /\ lock = "ui" \/ call # "none"
    /\ lock' = "free"
    /\ call' = "none"
    /\ UNCHANGED lockFrame

(* The interactive thread is inside a blocking call. *)
InCall == exit = "none" /\ pc = "input" /\ call # "none"

NextLock ==
    \/ KeyLock \/ CallBegin \/ Unlock
    \/ Unlocked /\ (Draw \/ Idle \/ IoError)
    \/ LockedPlain /\
         (NetUp \/ NetDown \/ NetEsc \/ NetQuit \/ NetDelete \/ NetJoinPrompt \/ NetConfig
            \/ NetToggleFilter \/ NetHelp \/ NetShow \/ NetFlags \/ FlagsClose
            \/ NetDialogEsc
            \/ MemberUp \/ MemberDown \/ MemberEsc \/ MemberBack \/ MemberHelp
            \/ MemberRename \/ MemberAdd)
    \/ Locked("l") /\ NetLeave
    \/ Locked("j") /\ NetJoin
    \/ Locked("e") /\ NetEditRules
    \/ Locked("flag") /\ FlagsToggle
    \/ Locked("member") /\ MemberAction
    \/ lock = "ui" /\ call \in {"none", "x"} /\ (NetUserCommand \/ MemberUserCommand)
    \/ Unlocked /\ (EditChar \/ EditEsc \/ EditBackspace)
    \/ LockedPlain /\ EditEnterAPIKey
    \/ dialog.tag = "Join" /\ lock = "free" /\ call = "Join" /\ EditEnterRemote
    \/ dialog.tag # "Join" /\ Locked("Enter") /\ EditEnterRemote
    \/ lock = "free" /\ (PollNetworks \/ PollMembers)

SpecLock == Init /\ [][NextLock]_vars

(* C14: the lock discipline: while the interactive thread is inside a
   blocking Remote Gateway call or waits for a delegated child command, it
   does not hold the Settings lock. *)
C14_LockReleasedInCalls == InCall => lock = "free"

----------------------------------------------------------------------------
(* The blocking gateway calls of client.rs: sync_get_networks (120-145) with
   its task get_networks (68-74), and sync_get_members (147-175) *)

(* Duration::new(3, 0): the bound of the receive loop, in seconds. *)
Timeout == 3

(* What the request of the spawned task meets: the service answers with
   data, the service rejects the request, the request fails on this side
   (the token file cannot be read, the connection fails), or nothing comes
   back. *)
GwKinds == {"data", "rejection", "local_failure", "silent"}

(* The lists a service answers with (identifiers of networks or members). *)
GwPayloads == {<<>>, <<"n1">>, <<"n1", "n2">>}

GwCauses ==
    {[kind |-> "data", val |-> v] : v \in GwPayloads}
        \cup {[kind |-> k, val |-> <<>>] : k \in GwKinds \ {"data"}}

gwFrame == <<storeVars, settingsVars, appVars, procVars,
             legacyVars, tplVars, fileVars, cmdVars, mainVars, lockVars>>

(* sync_get_networks() or sync_get_members(client, id) is called: the
   channel is made, the task is spawned, the clock is started. *)
GwCall ==
    /\ gw_fn = "none"
    /\ gw_fn' \in {"sync_get_networks", "sync_get_members"}
    /\ gw_cause' \in GwCauses
    /\ gw_chan' = [msg |-> None, closed |-> FALSE]
    /\ gw_elapsed' = 0
    /\ gw_out' = None
    /\ UNCHANGED gwFrame

(* The spawned task ends.  get_networks returns its error with `?` (lines
   69, 70) before it sends, and sends the list otherwise (72); the task of
   sync_get_members sends the Result of the request, Ok or Err (150).  The
   sender is dropped with the task. *)
GwTask ==
    /\ gw_fn # "none" /\ gw_out = None
    /\ gw_chan.msg = None /\ ~gw_chan.closed
    /\ gw_cause.kind # "silent"
    /\ gw_chan' =
         [msg |->
            IF gw_cause.kind = "data"
            THEN Some([tag |-> "ok", val |-> gw_cause.val])
            ELSE IF gw_fn = "sync_get_members"
                 THEN Some([tag |-> "err", val |-> gw_cause.kind])
                 ELSE None,
          closed |-> TRUE]
    /\ UNCHANGED <<gw_fn, gw_cause, gw_elapsed, gw_out, gwFrame>>

(* One turn of the receive loop: try_recv gives the message, or Err(_)
   (empty or disconnected alike) and the loop sleeps; then the clock is
   compared with the bound. *)
GwPoll ==
    /\ gw_fn # "none" /\ gw_out = None
    /\ IF gw_chan.msg # None
       THEN /\ gw_out' = Some(IF gw_chan.msg[1].tag = "ok"
                              THEN [tag |-> "data", val |-> gw_chan.msg[1].val]
                              ELSE [tag |-> "error", val |-> gw_chan.msg[1].val])
            /\ gw_chan' = [gw_chan EXCEPT !.msg = None]
            /\ UNCHANGED gw_elapsed
       ELSE /\ gw_elapsed' = gw_elapsed + 1
            /\ gw_out' = IF gw_elapsed' > Timeout
                         THEN Some([tag |-> "timeout", val |-> <<>>])
                         ELSE None
            /\ UNCHANGED gw_chan
    /\ UNCHANGED <<gw_fn, gw_cause, gwFrame>>

(* The function has returned; the next call can begin. *)
GwReturn ==
    /\ gw_fn # "none" /\ gw_out # None
    /\ gw_fn' = "none"
    /\ gw_cause' = [kind |-> "none", val |-> <<>>]
    /\ gw_chan' = [msg |-> None, closed |-> FALSE]
    /\ gw_elapsed' = 0
    /\ gw_out' = None
    /\ UNCHANGED gwFrame

NextGateway == GwCall \/ GwTask \/ GwPoll \/ GwReturn

SpecGateway == Init /\ [][NextGateway]_vars

(* The task of the call has ended: its request was answered, was rejected
   or failed. *)
GwTaskEnded == gw_chan.closed

(* C15: a blocking gateway call returns within its bound with one of three
   outcomes that tell the cases apart: the data the service sent, the error
   of a request that was rejected or failed locally, or a timeout.  A
   request that was rejected or failed before the call returned is never
   reported as a timeout, and a timeout is reported only after the bound,
   with no result waiting in the channel. *)
C15_GatewayOutcomes ==
    gw_out # None =>
        /\ gw_elapsed <= Timeout + 1
        /\ gw_out[1].tag = "data" =>
              (gw_cause.kind = "data" /\ gw_out[1].val = gw_cause.val)
        /\ (gw_cause.kind \in {"rejection", "local_failure"} /\ GwTaskEnded) =>
              gw_out[1].tag = "error"
        /\ gw_out[1].tag = "timeout" => (gw_elapsed > Timeout /\ gw_chan.msg = None)

----------------------------------------------------------------------------
(* Progress of the loop of run_app (main.rs 412-527) *)

(* The process keeps running: whenever a statement of main or of run_app
   can be executed, one is. *)
SpecMainLive == InitMain /\ [][NextMain]_vars /\ WF_vars(NextMain)

(* C16: fetching the networks never blocks the interactive loop for good:
   whatever the daemon does, a cycle that has begun its draw gets to the
   point where it polls for a key (or run_app has returned). *)
C16_CycleCompletes == (InRunApp /\ pc = "draw") ~> (pc = "input" \/ ~InRunApp)

----------------------------------------------------------------------------
(* Progress of run_command (app.rs 561-631) *)

(* The caller, the task and the child keep running: whenever one of them
   can take a step, a step is taken. *)
SpecCmdLive == Init /\ [][NextCmd]_vars /\ WF_vars(NextCmd)

(* C17: when the shell of a delegated command cannot be spawned,
   run_command still returns (with its error) instead of waiting for a
   child-exit message that never comes, so the session can go on. *)
C17_SpawnFailureReturns == (child = "failed") ~> (cmd_pc = "returned" \/ exit # "none")

----------------------------------------------------------------------------
(* The secret of the local daemon *)

(* C18: the secret file is checked at startup and only there: when it
   cannot be read the process stops before raw mode, before the alternate
   screen and before the saved networks are loaded; after a successful
   start the token is not read again, so a fetch that the daemon answers
   delivers its list even if the file has been lost since. *)
C18_SecretAtStartupOnly ==
    /\ (main_pc = "secret" /\ main_end = "panic") =>
          /\ ~raw_mode /\ ~alt_screen
          /\ DOMAIN savednetworks = {} /\ savednetworksidx = <<>>
    /\ (last.op = "fetch" /\ last.req[1] = "answers") => last.req[2] = "answered"

----------------------------------------------------------------------------
(* Dialogs and the edit buffer *)

(* C19: Escape closes any open dialog in Command mode: a step that handles
   KeyCode::Esc with editing_mode = Command and a dialog other than None,
   on either page, leaves dialog = None and the page as it was. *)
C19_EscClosesDialog ==
    [][(/\ pc = "input" /\ editing_mode = "Command" /\ dialog # DialogNone
        /\ last'.op \in {"Esc", "flags_close"})
          => (dialog' = DialogNone /\ page' = page)]_vars

(* C20: a free-text prompt starts from a clean buffer: the step that opens
   the Join prompt ('J') leaves editing_mode = Editing and an empty
   inputbuffer, whatever the buffer held before (the JSON of the settings
   viewer included), and Escape in Editing mode empties the buffer, closes
   the dialog and returns to Command mode. *)
C20_PromptStartsClean ==
    [][/\ (pc = "input" /\ editing_mode = "Command" /\ last'.op = "J")
            => (dialog'.tag = "Join" /\ editing_mode' = "Editing" /\ inputbuffer' = <<>>)
       /\ (pc = "input" /\ editing_mode = "Editing" /\ last'.op = "Esc")
            => (inputbuffer' = <<>> /\ dialog' = DialogNone /\ editing_mode' = "Command")
      ]_vars

(* C21: Enter in Editing mode commits the buffer to the action of the open
   dialog: whenever the handler returns, it has sent exactly the request of
   the dialog with the buffer as typed (Join, AddMember, RenameMember) or
   stored the buffer as the key of the network and shown that network
   (APIKey), and the buffer is empty, the dialog closed and the mode
   Command. *)
C21_EnterCommits ==
    [][(/\ pc = "input" /\ editing_mode = "Editing"
        /\ last'.op = "Enter" /\ exit' = "none")
          => /\ inputbuffer' = <<>> /\ dialog' = DialogNone /\ editing_mode' = "Command"
             /\ CASE dialog.tag = "Join" ->
                       /\ last'.req = <<"join_network", inputbuffer>>
                       /\ page' = page /\ api_keys' = api_keys
                  [] dialog.tag = "APIKey" ->
                       /\ last'.req = <<>>
                       /\ page' = PageNetwork(dialog.id)
                       /\ DOMAIN api_keys' = DOMAIN api_keys \cup {dialog.id}
                       /\ api_keys'[dialog.id] = inputbuffer
                       /\ \A k \in DOMAIN api_keys \ {dialog.id} : api_keys'[k] = api_keys[k]
                  [] dialog.tag = "AddMember" ->
                       /\ last'.req = <<"authorize_member", dialog.id, inputbuffer>>
                       /\ page' = page /\ api_keys' = api_keys
                  [] dialog.tag = "RenameMember" ->
                       /\ last'.req =
                            <<"update_member_name", dialog.id, dialog.member, inputbuffer>>
                       /\ page' = page /\ api_keys' = api_keys
                  [] OTHER -> last'.req = <<>> /\ page' = page /\ api_keys' = api_keys
    ]_vars

(* A rename has been committed with a name in the buffer. *)
C21_Witness ==
    /\ exit = "none" /\ last.op = "Enter"
    /\ last.req # <<>> /\ last.req[1] = "update_member_name" /\ last.req[4] # <<>>
    /\ dialog = DialogNone /\ editing_mode = "Command" /\ inputbuffer = <<>>

(* The steps a key can cause in Editing mode, and the steps no key causes. *)
EditOps == {"char", "Esc", "backspace", "Enter"}

LoopOps == {"draw", "idle", "io_error", "poll", "poll_members"}

(* What App::edit_mode_key must leave alone on a character or Backspace. *)
EditFrame == <<storeVars, settingsVars, editing_mode, dialog, member_count, member_state>>

(* C22: a keystroke goes to the handler its mode selects.  In Editing mode
   a character is appended to the buffer, Backspace removes the last
   character of the buffer (nothing from an empty one), and neither changes
   page, dialog, mode, cursors or stored networks, sends a request or ends
   the session; no command of Command mode runs while the mode is
   Editing. *)
C22_EditKeysOnlyEdit ==
    [][(pc = "input" /\ editing_mode = "Editing" /\ last' # last) =>
          /\ last'.op \in EditOps \cup LoopOps
          /\ last'.op = "char" =>
                /\ \E x \in Chars : inputbuffer' = Append(inputbuffer, x)
                /\ UNCHANGED EditFrame /\ last'.req = <<>> /\ exit' = "none"
          /\ last'.op = "backspace" =>
                /\ inputbuffer' = IF inputbuffer = <<>> THEN <<>>
                                  ELSE SubSeq(inputbuffer, 1, Len(inputbuffer) - 1)
                /\ UNCHANGED EditFrame /\ last'.req = <<>> /\ exit' = "none"
    ]_vars

(* The flags editor is open and a key is about to be handled. *)
InFlagsEditor ==
    /\ pc = "input" /\ exit = "none" /\ editing_mode = "Command"
    /\ dialog.tag = "NetworkFlags"

(* What no key of the flags editor may touch: the stored networks, the
   cursors, the filter and the page. *)
FlagsFrame ==
    <<storeVars, network_state, member_state, filter, page, editing_mode, inputbuffer>>

(* C23: while the flags editor of a network is open, 'n', 'd', 'g' and 'm'
   each send one toggle of the DNS, default, global and managed flag of
   that network and leave the editor open; Escape or 'q' closes the editor
   and the session goes on; any other key changes nothing; and no key
   moves a cursor, deletes a network or changes the page. *)
C23_FlagsEditorKeys ==
    [][(InFlagsEditor /\ last'.op \in {"flag", "flags_close", "idle"} /\ exit' # "error") =>
          /\ exit' = "none"
          /\ UNCHANGED FlagsFrame
          /\ last'.op = "flag" =>
                /\ dialog' = dialog
                /\ \/ last'.req = <<"toggle_flag", dialog.id, "AllowDNS", "n">>
                   \/ last'.req = <<"toggle_flag", dialog.id, "AllowDefault", "d">>
                   \/ last'.req = <<"toggle_flag", dialog.id, "AllowGlobal", "g">>
                   \/ last'.req = <<"toggle_flag", dialog.id, "AllowManaged", "m">>
          /\ last'.op = "flags_close" => dialog' = DialogNone
          /\ last'.op = "idle" => dialog' = dialog
    ]_vars

(* The managed flag of n1 has been toggled and the editor is still open. *)
C23_Witness ==
    /\ exit = "none" /\ last.op = "flag"
    /\ last.req = <<"toggle_flag", "n1", "AllowManaged", "m">>
    /\ dialog.tag = "NetworkFlags" /\ dialog.id = "n1"


----------------------------------------------------------------------------
(* C24: whenever the page is Page::Network(id) and last_error is set, the
   next draw shows the error and leaves the session with
   dialog = Dialog::APIKey(id), EditingMode::Editing, an empty inputbuffer
   and Page::Networks, for every stored error. *)
C24_ErrorFallback ==
    [][(exit = "none" /\ pc = "draw" /\ page.tag = "Network" /\ last_error # None
        /\ last'.op = "draw")
       => /\ exit' = "none"
          /\ page' = PageNetworks
          /\ dialog' = Dialog("APIKey", page.id, "")
          /\ editing_mode' = "Editing"
          /\ inputbuffer' = <<>>]_vars


(* C25: drawing a frame is a pure function of the session state: a draw
   (with no settings viewer pending, which the loop handles before the
   draw) changes none of page, editing mode, dialog, inputbuffer, the two
   cursors, the stored networks, members, API keys and last_error, and
   issues no remote request. *)
C25_DrawIsPure ==
    [][(exit = "none" /\ pc = "draw" /\ dialog.tag # "Config" /\ last'.op = "draw")
       => /\ UNCHANGED <<page, editing_mode, dialog, inputbuffer, network_state,
                         member_state, storeVars, members, api_keys, last_error>>
          /\ last'.req = <<>>]_vars


(* C26: the settings viewer is transient: with Dialog::Config pending, the
   next cycle of the loop shows the buffer in the pager and sets the
   dialog to None and the inputbuffer to empty before it draws, and no key
   is ever dispatched with Dialog::Config. *)
C26_ViewerTransient ==
    [][/\ (pc = "draw" /\ dialog.tag = "Config" /\ last'.op \in {"draw", "fetch"})
          => (dialog' = DialogNone /\ inputbuffer' = <<>>)
       /\ pc' = "input" => dialog'.tag # "Config"]_vars


(* C27: during run_command raw mode and the alternate screen stay left
   for the whole life of the child, and the prompt and the return come
   only after the child has exited. *)
C27_MutedWhileChildRuns ==
    /\ child \in {"running", "killed"} => (~raw_mode /\ ~alt_screen)
    /\ (exit = "none" /\ cmd_pc \in {"prompt", "clear_last"}) => child = "exited"


(* C28: for every delegated command, with trap or without, an interrupt
   that arrives while the child is running is taken by the application
   and answered with a SIGTERM to the child; no SIGTERM is sent without
   an interrupt, and none to a child that is not running. *)
C28_InterruptForwarded ==
    [][/\ last'.op = "sigint" => (exit' = "none" /\ cmd_trap)
       /\ last'.op = "sigterm" => (sigint /\ child = "running")]_vars


(* C29: on Page::Network in command mode, a character with a member
   template runs the template on the member at the member cursor
   (member_state), whatever the member cursor and the network cursor
   are. *)
C29_MemberCommandAtMemberCursor ==
    [][(AtInput /\ editing_mode = "Command" /\ page.tag = "Network"
        /\ last'.op = "x" /\ last'.req # <<>>)
       => /\ unwrap_or_default(member_state) < Len(members[page.id])
          /\ last'.req[2] = members[page.id][unwrap_or_default(member_state) + 1].node_id]_vars


(* C30: the handler signals quit, and the loop then stops, only for 'q' on
   Page::Networks in command mode with Dialog::None; 'q' on Page::Network
   goes back to the list with the member cursor at 0 and no dialog, 'q' in
   the flags editor closes the editor, and a character typed in editing
   mode, 'q' included, is appended to the inputbuffer. *)
C30_QuitSemantics ==
    [][/\ exit' = "quit"
          => (/\ InNetworkList /\ last'.op = "q"
              /\ UNCHANGED <<storeVars, settingsVars, appVars>>)
       /\ exit = "quit" => FALSE
       /\ (InNetworkDetail /\ last'.op = "q")
          => (/\ exit' = "none" /\ page' = PageNetworks
              /\ member_state' = Some(0) /\ dialog' = DialogNone)
       /\ (InFlagsEditor /\ last'.op = "flags_close")
          => (exit' = "none" /\ dialog' = DialogNone /\ page' = page)
       /\ (InEditing /\ last'.op = "char")
          => (/\ exit' = "none"
              /\ \E x \in Chars : inputbuffer' = Append(inputbuffer, x)
              /\ UNCHANGED <<page, dialog, editing_mode>>)]_vars

(* 'q' typed into the API key prompt became the key, 'q' on the member
   page led back to the list, and 'q' on the list ended the session. *)
C30_Witness ==
    /\ exit = "quit" /\ last.op = "q"
    /\ page = PageNetworks /\ dialog = DialogNone /\ editing_mode = "Command"
    /\ member_state = Some(0)
    /\ "n1" \in DOMAIN api_keys /\ api_keys["n1"] = <<"q">>


----------------------------------------------------------------------------
(* C31: update_networks is an order-stable upsert: after it every polled
   identifier maps to the record polled for it (the last one of the list
   with that identifier), the order list begins with the order list as it
   was, the identifiers added behind it are ones it lacked, no identifier
   is in it twice, and it is not shorter. *)
C31_OrderStableUpsert ==
    [][last'.op = "poll" =>
         LET networks == last'.req
             n == Len(savednetworksidx)
         IN /\ PolledIds(networks) \subseteq DOMAIN savednetworks'
            /\ \A i \in 1..Len(networks) :
                 (\A j \in (i + 1)..Len(networks) : networks[j].id # networks[i].id)
                 => savednetworks'[networks[i].id] = networks[i]
            /\ Len(savednetworksidx') >= n
            /\ SubSeq(savednetworksidx', 1, n) = savednetworksidx
            /\ \A i \in (n + 1)..Len(savednetworksidx') :
                 savednetworksidx'[i] \notin Range(savednetworksidx)
            /\ \A i, j \in 1..Len(savednetworksidx') :
                 i # j => savednetworksidx'[i] # savednetworksidx'[j]]_vars

(* A poll naming one network twice, with two statuses, into a store of
   three whose order list is complete and where a network the poll left
   out is DISCONNECTED. *)
C31_Witness ==
    /\ last.op = "poll" /\ Len(last.req) = 2
    /\ last.req[1].id = last.req[2].id /\ last.req[1].status # last.req[2].status
    /\ Len(savednetworksidx) = 3
    /\ \E id \in DOMAIN savednetworks : savednetworks[id].status = STATUS_DISCONNECTED


(* C32: the refresher follows the page: it merges the network list on
   Page::Networks and the roster of id on Page::Network(id); a roster that
   arrived replaces the member list of id as a whole and nothing else, a
   failed fetch leaves every member list as it was and sets last_error;
   the refresher takes the lock for the merge only, so a merge (a step
   that is not one of the interactive thread on the lock) happens when
   the lock is free and leaves it free. *)
C32_RefresherFollowsView ==
    [][/\ (last'.op = "poll" /\ UNCHANGED lockVars)
          => (/\ page.tag = "Networks"
              /\ lock = "free"
              /\ UNCHANGED <<members, last_error>>)
       /\ (last'.op = "poll_members" /\ UNCHANGED lockVars)
          => (/\ page.tag = "Network"
              /\ last'.req = <<"get_members", page.id>>
              /\ lock = "free"
              /\ UNCHANGED storeVars
              /\ \/ /\ last_error' = last_error
                    /\ DOMAIN members' = DOMAIN members \cup {page.id}
                    /\ members'[page.id] \in Rosters(page.id)
                    /\ \A k \in DOMAIN members \ {page.id} : members'[k] = members[k]
                 \/ /\ members' = members
                    /\ last_error' # None)]_vars

(* A fetch has failed while a roster of two was stored: the roster is
   still there and the error is set. *)
C32_Witness ==
    /\ last.op = "poll_members" /\ last_error # None
    /\ page = PageNetwork("n1")
    /\ "n1" \in DOMAIN members /\ Len(members["n1"]) = 2
    /\ lock = "free"


(* C33: every step that enters Page::Network, by 's' with a stored key or
   by Enter in the API key prompt, leaves the member cursor at 0 (an unset
   cursor reads as 0), whatever it was before. *)
C33_EntryResetsMemberCursor ==
    [][(page.tag # "Network" /\ page'.tag = "Network")
       => unwrap_or_default(member_state') = 0]_vars


(* C34: whenever 'r', 'a', 'd' or 'D' runs on Page::Network(id) with a
   roster stored and a member selected, the member cursor is an index of
   the roster of id as it is then, whatever rosters the refresher has put
   in place between the keys. *)
C34_MemberCursorValidWhenUsed ==
    [][(InNetworkDetail /\ MemberSelected
        /\ last'.op \in {"r", "authorize_member", "deauthorize_member", "delete_member"})
       => ~MemberIndexPanics]_vars


(* display_networks (display.rs 170-181): the rows of the network list,
   which are the entries of the order list that pass the filter. *)
DisplayedRows(map, idx, f) ==
    SelectSeq(idx, LAMBDA id : f = "Connected" => map[id].status # STATUS_DISCONNECTED)

(* The network the step of a key of the network list has acted on: the one
   named in the request of 'l' and 'j', in the dialog 'f' or 's' opens, in
   the page 's' shows, in the JSON 'c' puts into the inputbuffer. *)
ActedOn ==
    CASE last'.op \in {"l", "j"} -> last'.req[2]
      [] last'.op = "c" -> inputbuffer'[2]
      [] last'.op = "s" /\ page'.tag = "Network" -> page'.id
      [] OTHER -> dialog'.id

(* C35: for every store, filter and cursor p < count(), the network that
   'l', 'j', 'c', 's' or 'f' acts on is the p-th row of the displayed
   (filtered) list. *)
C35_ActsOnHighlighted ==
    [][(/\ InNetworkList
        /\ Range(savednetworksidx) \subseteq DOMAIN savednetworks
        /\ Cursor < count(savednetworks, savednetworksidx, filter)
        /\ last'.op \in {"l", "j", "c", "s", "f"}
        /\ exit' # "panic")
       => ActedOn = DisplayedRows(savednetworks, savednetworksidx, filter)[Cursor + 1]]_vars


(* C36: in every reachable state Page::Network(id) implies that an API key
   is stored for id, so the lookups of 'a', 'd', 'D' and of Enter in the
   AddMember and RenameMember prompts find a key. *)
C36_DetailHasKey ==
    /\ page.tag = "Network" => page.id \in DOMAIN api_keys
    /\ dialog.tag \in {"AddMember", "RenameMember"} => dialog.id \in DOMAIN api_keys

(* After an error fallback and a second Enter the network is shown again,
   and 'a', 'd' or 'D' has found the key and made its request. *)
C36_Witness ==
    /\ exit = "none"
    /\ last.op \in {"authorize_member", "deauthorize_member", "delete_member"}
    /\ last.req # <<>>
    /\ last_error # None
    /\ page = PageNetwork("n1") /\ "n1" \in DOMAIN api_keys


(* C37: while Dialog::Help is shown in command mode, on either page, no
   key sends a request (authorize, deauthorize, delete member, join,
   leave), removes a network or runs a command. *)
C37_HelpBlocksActions ==
    [][(/\ AtInput /\ editing_mode = "Command" /\ dialog.tag = "Help"
        /\ (pc' = "draw" \/ exit' # "none")
        /\ last'.op # "io_error")
       => (last'.req = <<>> /\ UNCHANGED storeVars)]_vars


(* The key handlers of the session: every arm of command_mode_key and
   edit_mode_key. *)
KeyStep ==
    \/ NetUp \/ NetDown \/ NetEsc \/ NetQuit \/ NetDelete \/ NetLeave \/ NetJoin
    \/ NetJoinPrompt \/ NetConfig \/ NetToggleFilter \/ NetHelp \/ NetShow \/ NetFlags
    \/ NetEditRules \/ NetUserCommand \/ FlagsToggle \/ FlagsClose \/ NetDialogEsc
    \/ MemberUp \/ MemberDown \/ MemberEsc \/ MemberBack \/ MemberHelp \/ MemberRename
    \/ MemberAdd \/ MemberAction \/ MemberUserCommand
    \/ EditChar \/ EditEsc \/ EditBackspace \/ EditEnterAPIKey \/ EditEnterRemote

(* A key that changes page, mode, dialog, inputbuffer, a cursor or the
   filter, or ends the session as a quit. *)
KeyChangesState ==
    /\ KeyStep
    /\ exit' \in {"none", "quit"}
    /\ \/ exit' = "quit"
       \/ <<page, editing_mode, dialog, inputbuffer, network_state, member_state, filter>>'
            # <<page, editing_mode, dialog, inputbuffer, network_state, member_state, filter>>

(* C38: the interaction state machine has no dead state: whenever a key
   is awaited, at least one key changes the state (and so a key sequence
   leads on towards the list without a dialog, and to quit). *)
C38_NoDeadState == AtInput => ENABLED KeyChangesState


(* C39: a stored error prompts once: after Enter in the API key prompt
   has shown Page::Network(id), the draws that follow keep that page as
   long as no new roster fetch has failed; here, the draw right after the
   Enter, before any fetch. *)
C39_StaleErrorPromptsOnce ==
    [][(/\ exit = "none" /\ pc = "draw"
        /\ last.op = "Enter" /\ page.tag = "Network"
        /\ last'.op = "draw" /\ exit' = "none")
       => (page' = page /\ dialog' = dialog /\ editing_mode' = editing_mode)]_vars

====
